---- MODULE Spec2Model ----
(***************************************************************************)
(* A model of the lan_tuya device communication stack:                     *)
(*   tuya/device.py          TuyaDevice (apply, fetch_state, set_state)    *)
(*   tuya/tuya_platform.py   _lan_control, status, set_status              *)
(*   tuya/tuya_protocol.py   TuyaProtocol (the single-shot outcome future) *)
(*   tuya/device_scanner.py  DeviceScanner and the presence protocols      *)
(* Coroutines are cut at their await points: one action per stretch of     *)
(* code that runs without suspending.                                      *)
(***************************************************************************)
EXTENDS Integers, Sequences, FiniteSets, TLC

\* ------------------------------------------------------------------ bounds

\* TuyaProtocol.sequence_number is unbounded in the code; no exchange is
\* started once it has reached MaxSeq.
MaxSeq == 5

\* The ends of the small ranges scale_value is explored on lie in
\* 0 .. MaxEndpoint.
MaxEndpoint == 3

\* ------------------------------------------------------------ value domains

None == "None"

\* The registered devices (Broker._devices keys).
Devices == {"d1", "d2"}

\* DeviceData["attributes"]: the ordered attribute names of each device.
attributes == [d \in Devices |-> <<"switch_led", "bright_value">>]

\* Attribute names a caller may pass to set_state.
Names == {"switch_led", "bright_value", "work_mode"}

\* Data-point codes a device may report in a dps map.
Codes == {1, 2, 3}

\* Data-point values.
Values == {0, 1}

IPs == {"10.0.0.1", "10.0.0.2"}

Versions == {"3.1", "3.3"}

\* Optional[Mapping]: None or a mapping.
NoMap == [some |-> FALSE]

Some(m) == [some |-> TRUE, map |-> m]

EmptyMap == [k \in {} |-> 0]

\* Python truthiness of an Optional[Mapping]: None and {} are falsy.
Truthy(om) == om.some /\ DOMAIN om.map # {}

Range(s) == {s[i] : i \in DOMAIN s}

Min(a, b) == IF a < b THEN a ELSE b

\* The codes of S in ascending order (devices list their data points by
\* ascending id).
RECURSIVE Ascending(_)
Ascending(S) ==
  IF S = {} THEN <<>>
  ELSE LET m == CHOOSE x \in S : \A y \in S : x <= y
       IN  <<m>> \o Ascending(S \ {m})

\* The dps maps a device may answer with: any set of codes, one value.
DpsMaps ==
  {[i \in 1..Cardinality(cs) |-> [code |-> Ascending(cs)[i], value |-> v]] :
     cs \in SUBSET Codes, v \in Values}

DpsCodes(dps) == {dps[i].code : i \in DOMAIN dps}

DpsValue(dps, c) == dps[CHOOSE i \in DOMAIN dps : dps[i].code = c].value

\* The attribute maps a caller may pass to set_state.
ValueMaps == {[n \in ns |-> v] : ns \in SUBSET Names, v \in Values}

\* ScanResult (the fields active, ability, mode, encrypt and productKey are
\* the same in every announcement fed to the model and are left out).
GwIds == Devices \cup {"dX"}

ScanResults == [ip : IPs, gwId : GwIds, version : Versions]

\* Command codes.
CONTROL == 7

DP_QUERY == 10

\* ------------------------------------------------------- Python exceptions

\* What loop.create_connection raises: connection refused, connect timed out
\* (ETIMEDOUT), no route to host (EHOSTUNREACH, a plain OSError).
ConnectErrors == {"ConnectionRefusedError", "TimeoutError", "OSError"}

\* What the transport passes to connection_lost after a fatal socket error.
LostErrors == {"ConnectionResetError", "TimeoutError"}

\* The exceptions with which the socket layer reports that the device could
\* not be reached or stopped answering.
TransportErrors == ConnectErrors \cup LostErrors

\* isinstance(e, ConnectionError): the builtin class and its subclasses.
IsConnectionError(e) ==
  e \in {"ConnectionError", "ConnectionRefusedError", "ConnectionResetError",
         "ConnectionAbortedError", "BrokenPipeError"}

\* A handler that catches connection errors only (a variant of IsException
\* against which C7 is checked).
IsException_ConnectionOnly(e) == IsConnectionError(e)

\* isinstance(e, Exception): asyncio.CancelledError derives from BaseException.
IsException(e) == e # "CancelledError"

\* The class of what a call raised (the ValueErrors carry their message).
ExceptionClass(result) ==
  IF result \in {"ValueError: No IP address", "ValueError: No DPS codes found yet"}
  THEN "ValueError" ELSE result

\* What the capability setters raise for an attribute the device lacks:
\* raise ValueError("Power state is unsupported").
UnsupportedCapability == "ValueError"

\* ----------------------------------------------------------------- state

VARIABLES
  ip,               \* DeviceData["ip"] per device
  version,          \* DeviceData["version"]
  code_to_name,     \* DeviceData["code_to_name"]
  name_to_code,     \* DeviceData["name_to_code"]
  state,            \* TuyaDevice._state
  failed_connect,   \* TuyaDevice._failed_connect
  sequence_number,  \* TuyaProtocol.sequence_number (class attribute)
  task,             \* the fetch_state / set_state coroutine running on a device
  proto,            \* the TuyaProtocol and transport of its current exchange
  exch,             \* observed: outcomes of the exchanges of the current or last call
  ret,              \* observed: how the last call on the device ended
  unreached,        \* observed: consecutive fetches ended by a transport error
  open_conns,       \* observed: the exchanges (by sequence number) whose TCP
                    \* connection is established and not yet closed
  gather,           \* Broker.update_all_states: per device, whether the gather
                    \* has an unfinished fetch_state child for it ("child"),
                    \* one that wait_for has cancelled ("cancelling"), or none
  seen,             \* DeviceScanner._seen
  on_device_found,  \* DeviceScanner.on_device_found, in insertion order
  is_running,       \* DeviceScanner.is_running
  transport,        \* proto_31.transport and proto_33.transport, by port
  adding,           \* the add_listener calls suspended in _start
  removers,         \* the keys of the remove closures add_listener has returned
  delivered,        \* observed: how often each callback was passed each result
  calc,             \* a call of one of the pure functions (frame codec, unit
                    \* scaling, capability accessors): its arguments and result
  escaped,          \* observed: the last datagram_received let a callback's exception out
  created,          \* the set_result tasks Broker.on_new_device_found has
                    \* created and the event loop has not yet started, in
                    \* the order of their creation, each with its ScanResult
  heard             \* observed: per device, the last announcement carrying
                    \* its id that a datagram_received got while a binding
                    \* listener was registered

devVars == <<ip, version, code_to_name, name_to_code, state, failed_connect,
             sequence_number, task, proto, exch, ret, unreached, open_conns,
             gather>>

scanVars == <<seen, on_device_found, is_running, transport, adding, removers,
              delivered, escaped>>

brokerVars == <<created, heard>>

vars == <<devVars, scanVars, calc, brokerVars>>

\* No announcement heard; the announcement r heard.
Unheard == [some |-> FALSE]

Heard(r) == [some |-> TRUE, result |-> r]

\* No pure function is being followed.
NoCalc == [fn |-> "none", stage |-> "none"]

\* asyncio.Future states of TuyaProtocol._outcome.
Pending == [st |-> "pending"]

Result(v) == [st |-> "result", val |-> v]

Exception(e) == [st |-> "exception", exc |-> e]

Cancelled == [st |-> "cancelled"]

\* Decoded JSON payloads: None, an object without "dps", an object with "dps".
JsonNone == [kind |-> "none"]

JsonNoDps == [kind |-> "nodps"]

JsonDps(dps) == [kind |-> "dps", dps |-> dps]

IdleTask ==
  [op |-> "none", pc |-> "idle", ip |-> None, value |-> EmptyMap,
   status |-> EmptyMap, attempt |-> 0]

NoProto == [seqno |-> 0, command |-> 0, version |-> None,
            outcome |-> Pending, transport |-> "none"]

NoCall == [op |-> "none", result |-> "none"]

\* ------------------------------------------------------------ TuyaDevice

\* TuyaDevice.assumed_state
assumed_state(d) == failed_connect[d] > 3

\* Variant: a device that is assumed unreachable is not available.
is_available_Reachable(d) ==
  ip[d] # None /\ state[d].some /\ ~assumed_state(d)

\* TuyaDevice.is_available
is_available(d) == ip[d] # None /\ state[d].some

\* set_state: max_attempt = 2
max_attempt == 2

\* zip(codes, attributes) as a dict: the i-th code of the response to the
\* i-th registered attribute, up to the shorter of the two.
ZipCodes(dps, attrs) ==
  LET n == Min(Len(dps), Len(attrs))
  IN  [c \in {dps[i].code : i \in 1..n} |->
         attrs[CHOOSE i \in 1..n : dps[i].code = c]]

\* Variant: every name is given its position among the codes instead of
\* its code.
InvertMap_ByPosition(m) ==
  [n \in {m[c] : c \in DOMAIN m} |->
     Cardinality({c \in DOMAIN m : c <= CHOOSE x \in DOMAIN m : m[x] = n})]

\* {name: code for code, name in code_to_name.items()}
InvertMap(m) ==
  [n \in {m[c] : c \in DOMAIN m} |-> CHOOSE c \in DOMAIN m : m[c] = n]

\* {map[code]: status[code] for code in status}, when every code is a key.
NamedState(map, dps) ==
  [n \in {map[c] : c \in DpsCodes(dps)} |->
     DpsValue(dps, CHOOSE c \in DpsCodes(dps) : map[c] = n)]

\* {map[name]: value[name] for name in value}, when every name is a key.
CodedStatus(map, value) ==
  [c \in {map[n] : n \in DOMAIN value} |->
     value[CHOOSE n \in DOMAIN value : map[n] = c]]

\* dict.update
Update(st, value) ==
  [n \in DOMAIN st \cup DOMAIN value |->
     IF n \in DOMAIN value THEN value[n] ELSE st[n]]

\* set_state after a successful exchange: state = self._state; if state:
\* state.update(value)
MergedState(st, value) ==
  IF Truthy(st) THEN Some(Update(st.map, value)) ELSE st

\* What awaiting a done future raises.
Raised(o) == IF o.st = "cancelled" THEN "CancelledError" ELSE o.exc

\* The observation of one exchange: "ok" or the exception it raised.
Tag(o) == IF o.st = "result" THEN "ok" ELSE Raised(o)

\* A protocol that numbers the requests of each connection from 1 (a
\* variant of StartExchange against which C19 is checked).
StartExchange_PerConnection(d, command) ==
  /\ sequence_number < MaxSeq
  /\ sequence_number' = sequence_number + 1
  /\ proto' = [proto EXCEPT ![d] =
                 [seqno |-> 1, command |-> command,
                  version |-> version[d], outcome |-> Pending,
                  transport |-> "none"]]

\* TuyaProtocol.__init__: takes the next sequence number, creates the future.
StartExchange(d, command) ==
  /\ sequence_number < MaxSeq
  /\ sequence_number' = sequence_number + 1
  /\ proto' = [proto EXCEPT ![d] =
                 [seqno |-> sequence_number + 1, command |-> command,
                  version |-> version[d], outcome |-> Pending,
                  transport |-> "none"]]

\* A fan-out that cancels the unfinished siblings of a child whose call
\* raises (a variant of EndCall against which C20 is checked).
EndCall_FailFast(d, result) ==
  /\ task' = [task EXCEPT ![d] = IdleTask]
  /\ proto' = [proto EXCEPT ![d] = NoProto]
  /\ ret' = [ret EXCEPT ![d] = [op |-> task[d].op, result |-> result]]
  /\ gather' = [e \in Devices |->
                  IF e = d THEN "none"
                  ELSE IF result \notin {"None", "True", "False"} /\ gather[e] = "child"
                       THEN "cancelling" ELSE gather[e]]
  /\ UNCHANGED sequence_number

\* The call on d ends: returns or raises `result`. A child of the gather
\* (return_exceptions=True) is done with either; its siblings run on.
EndCall(d, result) ==
  /\ task' = [task EXCEPT ![d] = IdleTask]
  /\ proto' = [proto EXCEPT ![d] = NoProto]
  /\ ret' = [ret EXCEPT ![d] = [op |-> task[d].op, result |-> result]]
  /\ gather' = [gather EXCEPT ![d] = "none"]
  /\ UNCHANGED sequence_number

\* TuyaDevice.apply
Apply(d, r) ==
  /\ r.gwId = d
  /\ ip' = [ip EXCEPT ![d] = r.ip]
  /\ version' = [version EXCEPT ![d] = r.version]
  /\ UNCHANGED <<code_to_name, name_to_code, state, failed_connect,
                 sequence_number, task, proto, exch, ret, unreached, open_conns,
                 gather, scanVars, calc, brokerVars>>

\* The announcements a registered device makes of itself while its control
\* channel is explored: one address, one protocol generation.
OwnAnnouncements(d) ==
  {r \in ScanResults : r.gwId = d /\ r.ip = "10.0.0.1" /\ r.version = "3.3"}

\* fetch_state up to its first suspension.
FetchState(d) ==
  /\ task[d].pc = "idle"
  /\ exch' = [exch EXCEPT ![d] = <<>>]
  /\ IF ip[d] = None
     THEN /\ ret' = [ret EXCEPT ![d] =
                       [op |-> "fetch", result |-> "ValueError: No IP address"]]
          /\ UNCHANGED <<task, proto, sequence_number>>
     ELSE /\ StartExchange(d, DP_QUERY)
          /\ task' = [task EXCEPT ![d] =
                        [IdleTask EXCEPT !.op = "fetch", !.pc = "connecting",
                                         !.ip = ip[d]]]
          /\ ret' = [ret EXCEPT ![d] = [op |-> "fetch", result |-> "pending"]]
  /\ UNCHANGED <<ip, version, code_to_name, name_to_code, state, failed_connect,
                 unreached, open_conns, gather, scanVars, calc, brokerVars>>

\* A status that reports a response without "dps" as a connection error (a
\* variant of status against which C18 is checked).
status_ConnectionError(r) ==
  IF r.st = "result" /\ r.val.kind # "dps" THEN Exception("ConnectionError") ELSE r

\* tuya_platform.status on the outcome of _lan_control.
status(r) ==
  IF r.st = "result" /\ r.val.kind # "dps" THEN Exception("ValueError") ELSE r

\* fetch_state, the else branch: the exchange returned the dps map.
FetchElse(d, dps) ==
  LET old == code_to_name[d]
      map == IF Truthy(old) THEN old.map ELSE ZipCodes(dps, attributes[d])
  IN  /\ IF Truthy(old)
         THEN UNCHANGED <<code_to_name, name_to_code>>
         ELSE /\ code_to_name' = [code_to_name EXCEPT ![d] = Some(map)]
              /\ name_to_code' = [name_to_code EXCEPT ![d] = Some(InvertMap(map))]
      /\ IF DpsCodes(dps) \subseteq DOMAIN map
         THEN /\ state' = [state EXCEPT ![d] = Some(NamedState(map, dps))]
              /\ failed_connect' = [failed_connect EXCEPT ![d] = 0]
              /\ unreached' = [unreached EXCEPT ![d] = 0]
              /\ EndCall(d, "None")
         ELSE /\ UNCHANGED <<state, failed_connect, unreached>>
              /\ EndCall(d, "KeyError")

\* fetch_state resumed with the outcome r of its exchange.
FetchResume(d, r) ==
  LET s == status(r)
  IN  /\ exch' = [exch EXCEPT ![d] = Append(@, Tag(r))]
      /\ UNCHANGED <<ip, version, scanVars, calc, brokerVars>>
      /\ IF s.st = "result"
         THEN FetchElse(d, s.val.dps)
         ELSE /\ UNCHANGED <<code_to_name, name_to_code, state>>
              /\ unreached' = [unreached EXCEPT ![d] =
                                 IF Raised(s) \in TransportErrors THEN @ + 1 ELSE @]
              /\ IF IsConnectionError(Raised(s))
                 THEN /\ failed_connect' =
                           [failed_connect EXCEPT ![d] = @ + 1]
                      /\ EndCall(d, "None")
                 ELSE /\ UNCHANGED failed_connect
                      /\ EndCall(d, IF IsException(Raised(s))
                                    THEN "None" ELSE Raised(s))

\* A variant of SetStateCheck that tests the map against None instead of
\* for truthiness (against which C6 is checked).
SetStateCheck_IsNone(d, value) ==
  LET map == name_to_code[d]
  IN  IF ip[d] = None THEN "ValueError: No IP address"
      ELSE IF ~map.some THEN "ValueError: No DPS codes found yet"
      ELSE IF ~(DOMAIN value \subseteq DOMAIN map.map) THEN "KeyError"
      ELSE "ok"

\* set_state before its loop: what it raises, or "ok" when it goes on to
\* the exchange.
SetStateCheck(d, value) ==
  LET map == name_to_code[d]
  IN  IF ip[d] = None THEN "ValueError: No IP address"
      ELSE IF ~Truthy(map) THEN "ValueError: No DPS codes found yet"
      ELSE IF ~(DOMAIN value \subseteq DOMAIN map.map) THEN "KeyError"
      ELSE "ok"

\* set_state up to its first suspension.
SetState(d, value) ==
  /\ task[d].pc = "idle"
  /\ exch' = [exch EXCEPT ![d] = <<>>]
  /\ UNCHANGED <<ip, version, code_to_name, name_to_code, state, failed_connect,
                 unreached, open_conns, gather, scanVars, calc, brokerVars>>
  /\ LET map == name_to_code[d]
         check == SetStateCheck(d, value)
     IN  IF check # "ok"
         THEN /\ ret' = [ret EXCEPT ![d] = [op |-> "set", result |-> check]]
              /\ UNCHANGED <<task, proto, sequence_number>>
         ELSE /\ StartExchange(d, CONTROL)
              /\ task' = [task EXCEPT ![d] =
                            [op |-> "set", pc |-> "connecting", ip |-> ip[d],
                             value |-> value,
                             status |-> CodedStatus(map.map, value),
                             attempt |-> 0]]
              /\ ret' = [ret EXCEPT ![d] = [op |-> "set", result |-> "pending"]]

\* set_state resumed with the outcome r of the exchange of one attempt.
SetResume(d, r) ==
  /\ exch' = [exch EXCEPT ![d] = Append(@, Tag(r))]
  /\ UNCHANGED <<ip, version, code_to_name, name_to_code, failed_connect,
                 unreached, scanVars, calc, brokerVars>>
  /\ IF r.st = "result"
     THEN /\ state' = [state EXCEPT ![d] = MergedState(@, task[d].value)]
          /\ EndCall(d, "True")
     ELSE /\ UNCHANGED state
          /\ IF IsConnectionError(Raised(r))
             THEN IF task[d].attempt + 1 < max_attempt
                  THEN /\ StartExchange(d, CONTROL)
                       /\ task' = [task EXCEPT ![d].attempt = @ + 1,
                                               ![d].pc = "connecting"]
                       /\ UNCHANGED <<ret, gather>>
                  ELSE EndCall(d, "False")
             ELSE EndCall(d, IF IsException(Raised(r))
                             THEN "False" ELSE Raised(r))

\* The coroutine awaiting _lan_control is resumed with its outcome.
Resume(d, r) ==
  IF task[d].op = "fetch" THEN FetchResume(d, r) ELSE SetResume(d, r)

\* ------------------------------------------------- control channel, protocol

\* What a device may send back in one chunk: too short for a frame header
\* and footer, or a frame whose payload is empty, undecodable or JSON. The
\* reply to a control command is returned by set_status and dropped by
\* set_state, so its JSON content is not varied.
ReceivedData(command) ==
  {[frame |-> "short"], [frame |-> "ok", payload |-> "empty"],
   [frame |-> "ok", payload |-> "bad"],
   [frame |-> "ok", payload |-> "json", json |-> JsonNoDps]}
  \cup IF command = DP_QUERY
       THEN {[frame |-> "ok", payload |-> "json", json |-> JsonDps(m)] :
               m \in DpsMaps}
       ELSE {}

\* TuyaProtocol.data_received on a pending outcome: unpack_message,
\* _decode_payload, json.loads; any exception becomes the outcome.
data_received(data) ==
  IF data.frame = "short" THEN Exception("struct.error")
  ELSE IF data.payload = "empty" THEN Result(JsonNone)
  ELSE IF data.payload = "bad" THEN Exception("ValueError")
  ELSE Result(data.json)

\* TuyaProtocol.connection_lost on a pending outcome.
connection_lost(exc) == IF exc # None THEN Exception(exc) ELSE Cancelled

\* TuyaProtocol.eof_received on a pending outcome.
eof_received == Exception("TuyaError")

\* A protocol whose handlers resolve the outcome whether or not it is done
\* (a variant of Resolve against which C16 is checked).
Resolve_Overwrite(d, o) == o

\* if self._outcome.done(): return
Resolve(d, o) ==
  IF proto[d].outcome.st = "pending" THEN o ELSE proto[d].outcome

protoFrame == <<ip, version, code_to_name, name_to_code, state, failed_connect,
                sequence_number, task, exch, ret, unreached, open_conns,
                gather, scanVars, calc, brokerVars>>

\* _lan_control: loop.create_connection raises e; no transport exists.
ConnectFailed(d, e) ==
  /\ task[d].pc = "connecting"
  /\ gather[d] # "cancelling"
  /\ Resume(d, Exception(e))
  /\ UNCHANGED open_conns

\* _lan_control: the connection is established, connection_made writes the
\* request, the coroutine goes on to await proto.outcome.
ConnectionMade(d) ==
  /\ task[d].pc = "connecting"
  /\ gather[d] # "cancelling"
  /\ proto' = [proto EXCEPT ![d].transport = "open"]
  /\ task' = [task EXCEPT ![d].pc = "awaiting"]
  /\ open_conns' = open_conns \cup {proto[d].seqno}
  /\ UNCHANGED <<ip, version, code_to_name, name_to_code, state, failed_connect,
                 sequence_number, exch, ret, unreached, gather, scanVars, calc, brokerVars>>

\* The transport delivers a chunk.
DataReceived(d, data) ==
  /\ proto[d].transport = "open"
  /\ proto' = [proto EXCEPT ![d].outcome = Resolve(d, data_received(data))]
  /\ UNCHANGED protoFrame

\* The peer closed its side; eof_received returns None, so the transport
\* closes and connection_lost(None) follows.
EofReceived(d) ==
  /\ proto[d].transport = "open"
  /\ proto' = [proto EXCEPT ![d].outcome = Resolve(d, eof_received),
                            ![d].transport = "eof"]
  /\ UNCHANGED protoFrame

\* The transport reports the end of the connection: with the error of a
\* fatal read or write, or with None after an EOF.
ConnectionLost(d, exc) ==
  /\ \/ proto[d].transport = "open" /\ exc \in LostErrors
     \/ proto[d].transport = "eof" /\ exc = None
  /\ proto' = [proto EXCEPT ![d].outcome = Resolve(d, connection_lost(exc)),
                            ![d].transport = "lost"]
  /\ UNCHANGED protoFrame

\* An exchange that closes its transport only after a result (a variant of
\* Close against which C15 is checked).
Close_AfterResult(conns, s, o) == IF o.st = "result" THEN conns \ {s} ELSE conns

\* _lan_control: finally: t.close()
Close(conns, s, o) == conns \ {s}

\* _lan_control: await proto.outcome completes; finally: t.close(); the
\* result or exception goes to the awaiting coroutine.
LanControlReturns(d) ==
  /\ task[d].pc = "awaiting"
  /\ gather[d] # "cancelling"
  /\ proto[d].outcome.st # "pending"
  /\ open_conns' = Close(open_conns, proto[d].seqno, proto[d].outcome)
  /\ Resume(d, proto[d].outcome)

\* The CancelledError of a timed-out wait_for reaches the fetch_state task
\* of d (in SpecDevice the timeout and its delivery are one step). A task
\* waiting in create_connection gets the CancelledError there (no
\* connection is handed to _lan_control); one waiting for proto.outcome
\* has that future cancelled and leaves _lan_control through its finally
\* clause.
TaskCancelled(d) ==
  /\ task[d].op = "fetch"
  /\ task[d].pc \in {"connecting", "awaiting"}
  /\ open_conns' = IF task[d].pc = "awaiting"
                   THEN Close(open_conns, proto[d].seqno, Cancelled)
                   ELSE open_conns
  /\ Resume(d, Cancelled)

\* ------------------------------------------------- Broker.update_all_states

\* tasks = asyncio.gather(*[device.fetch_state() for device in
\* devices.values() if device.ip], return_exceptions=True): one child task
\* per device that has an address. (One update runs at a time, and only on
\* devices without a call in flight.)
UpdateAllStates ==
  /\ \A d \in Devices : gather[d] = "none" /\ task[d].pc = "idle"
  /\ \E d \in Devices : ip[d] # None
  /\ gather' = [d \in Devices |-> IF ip[d] # None THEN "child" ELSE "none"]
  /\ UNCHANGED <<ip, version, code_to_name, name_to_code, state, failed_connect,
                 sequence_number, task, proto, exch, ret, unreached, open_conns,
                 scanVars, calc, brokerVars>>

\* The child task of d runs fetch_state up to its first suspension.
ChildStarts(d) ==
  /\ gather[d] = "child"
  /\ FetchState(d)

\* await asyncio.wait_for(tasks, timeout=timeout) times out: the gather is
\* cancelled, which cancels every child that is not done. (The children
\* have all run their first step by then.)
WaitForTimeout ==
  /\ \E d \in Devices : gather[d] = "child"
  /\ \A d \in Devices : gather[d] = "child" => task[d].pc # "idle"
  /\ gather' = [d \in Devices |->
                  IF gather[d] = "child" THEN "cancelling" ELSE gather[d]]
  /\ UNCHANGED <<ip, version, code_to_name, name_to_code, state, failed_connect,
                 sequence_number, task, proto, exch, ret, unreached, open_conns,
                 scanVars, calc, brokerVars>>

\* The cancelled child of d is resumed with the CancelledError.
ChildCancelled(d) ==
  /\ gather[d] = "cancelling"
  /\ TaskCancelled(d)

\* --------------------------------------------------------- DeviceScanner

PORT_31 == 6666

PORT_33 == 6667

Ports == {PORT_31, PORT_33}

\* The keys generate_random_key may return.
Keys == {"k1", "k2"}

\* A registered callback either returns or raises.
Callbacks == {"returns", "raises"}

\* The announcements on the network: a registered device seen at two
\* addresses, and a device that is not registered.
Announced ==
  {[ip |-> "10.0.0.1", gwId |-> "d1", version |-> "3.3"],
   [ip |-> "10.0.0.2", gwId |-> "d1", version |-> "3.3"],
   [ip |-> "10.0.0.1", gwId |-> "dX", version |-> "3.1"]}

\* The datagrams fed to the listeners: the announcement as plain JSON or
\* AES-encrypted with the discovery key, or bytes that are no announcement.
Datagrams ==
  {[enc |-> e, body |-> "garbage"] : e \in {"plain", "aes"}}
  \cup {[enc |-> e, body |-> "json", result |-> r] :
          e \in {"plain", "aes"}, r \in Announced}

\* v31PresenseProto.decode / v33PresenseProto.decode, json.loads and
\* ScanResult(**json_data): TRUE when datagram_received gets a ScanResult,
\* FALSE when one of them raises.
Decodes(port, dg) ==
  /\ dg.body = "json"
  /\ IF port = PORT_31 THEN dg.enc = "plain" ELSE dg.enc = "aes"

RegisteredKeys == {on_device_found[i].key : i \in DOMAIN on_device_found}

\* dict.pop(key, None) on the insertion-ordered dict.
Pop(cbs, key) == SelectSeq(cbs, LAMBDA e : e.key # key)

\* A variant of NotSeen that remembers nothing (against which C10 is
\* checked).
NotSeen_Always(data) == TRUE

\* if data not in self._seen
NotSeen(data) == data \notin seen

\* for callback in self.on_device_found.values(): callback(data) -- the
\* callbacks that get called: all up to and including the first that raises.
Called(cbs) ==
  LET raising == {i \in DOMAIN cbs : cbs[i].cb = "raises"}
      last == IF raising = {} THEN Len(cbs)
              ELSE CHOOSE i \in raising : \A j \in raising : i <= j
  IN  {cbs[i].key : i \in 1..last}

\* DeviceScanner._on_device_found_wrapper
on_device_found_wrapper(data) ==
  IF NotSeen(data)
  THEN /\ seen' = seen \cup {data}
       /\ delivered' = [k \in Keys |->
                          IF k \in Called(on_device_found)
                          THEN [delivered[k] EXCEPT ![data] = @ + 1]
                          ELSE delivered[k]]
  ELSE UNCHANGED <<seen, delivered>>

\* _on_device_found_wrapper raises what a callback it calls raises.
WrapperRaises(data) ==
  NotSeen(data) /\ \E i \in DOMAIN on_device_found : on_device_found[i].cb = "raises"

\* A datagram_received without the handler around the callback (a variant
\* of TryCallback against which C12 is checked).
TryCallback_NoExcept(raises) == raises

\* try: self._callback(scan_result) / except: pass -- whether what the
\* callback raises leaves datagram_received.
TryCallback(raises) == FALSE

\* Broker.on_new_device_found as a registered callback: it returns
\* normally.
BINDS == "binds"

\* Broker._find_device: the registered device whose id is the result's
\* gwId, or None.
find_device_ByAddress(result) ==
  IF \E d \in Devices : ip[d] = result.ip
  THEN CHOOSE d \in Devices : ip[d] = result.ip
  ELSE IF result.gwId \in Devices THEN result.gwId ELSE None

find_device(result) == IF result.gwId \in Devices THEN result.gwId ELSE None

\* Broker.on_new_device_found: a set_result task is created for the device
\* found, none when no device is found.
on_new_device_found(result) ==
  IF find_device(result) # None
  THEN Append(created, [device |-> find_device(result), result |-> result])
  ELSE created

\* A callback that binds devices is registered, and is among those called.
BindingRegistered ==
  \E i \in DOMAIN on_device_found : on_device_found[i].cb = BINDS

BindingCalled ==
  \E i \in DOMAIN on_device_found :
    on_device_found[i].cb = BINDS /\ on_device_found[i].key \in Called(on_device_found)

\* v31PresenseProto.datagram_received on the listener of `port`; an
\* exception of the decoding leaves the scanner as it was and goes to the
\* caller in the event loop.
DatagramReceived(port, dg) ==
  /\ transport[port] = "open"
  /\ IF Decodes(port, dg)
     THEN /\ on_device_found_wrapper(dg.result)
          /\ escaped' = TryCallback(WrapperRaises(dg.result))
          /\ created' = IF NotSeen(dg.result) /\ BindingCalled
                        THEN on_new_device_found(dg.result)
                        ELSE created
          /\ heard' = IF BindingRegistered /\ dg.result.gwId \in Devices
                      THEN [heard EXCEPT ![dg.result.gwId] = Heard(dg.result)]
                      ELSE heard
     ELSE /\ UNCHANGED <<seen, delivered, created, heard>>
          /\ escaped' = FALSE
  /\ UNCHANGED <<on_device_found, is_running, transport, adding, removers, devVars, calc>>

\* The event loop starts the oldest set_result task: device.apply(result),
\* then fetch_state up to its first suspension. A fetch_state call that
\* overlaps another call on the same device is not followed.
SetResult(d) ==
  /\ created # <<>>
  /\ Head(created).device = d
  /\ created' = Tail(created)
  /\ ip' = [ip EXCEPT ![d] = Head(created).result.ip]
  /\ version' = [version EXCEPT ![d] = Head(created).result.version]
  /\ IF task[d].pc = "idle"
     THEN /\ exch' = [exch EXCEPT ![d] = <<>>]
          /\ sequence_number < MaxSeq
          /\ sequence_number' = sequence_number + 1
          /\ proto' = [proto EXCEPT ![d] =
                         [seqno |-> sequence_number + 1, command |-> DP_QUERY,
                          version |-> Head(created).result.version,
                          outcome |-> Pending, transport |-> "none"]]
          /\ task' = [task EXCEPT ![d] =
                        [IdleTask EXCEPT !.op = "fetch", !.pc = "connecting",
                                         !.ip = Head(created).result.ip]]
          /\ ret' = [ret EXCEPT ![d] = [op |-> "fetch", result |-> "pending"]]
     ELSE UNCHANGED <<exch, task, ret, proto, sequence_number>>
  /\ UNCHANGED <<code_to_name, name_to_code, state, failed_connect,
                 unreached, open_conns, gather, scanVars, calc, heard>>

\* add_listener up to its first suspension: the callback is registered and
\* _start either returns at once or goes on to create the sockets.
AddListener(cb, key) ==
  /\ key \notin RegisteredKeys
  /\ on_device_found' = Append(on_device_found, [key |-> key, cb |-> cb])
  /\ IF is_running
     THEN removers' = removers \cup {key} /\ UNCHANGED adding
     ELSE adding' = adding \cup {[key |-> key, pc |-> PORT_31]} /\ UNCHANGED removers
  /\ UNCHANGED <<seen, is_running, transport, delivered, escaped, devVars, calc, brokerVars>>

\* The port is bound by a socket of this scanner that is not yet released.
Bound(port) == transport[port] \in {"open", "closing"}

\* _start: create_datagram_endpoint succeeds for the port the call waits
\* on; after the second one is_running is set and add_listener returns.
EndpointCreated(call) ==
  /\ call \in adding
  /\ ~Bound(call.pc)
  /\ transport' = [transport EXCEPT ![call.pc] = "open"]
  /\ IF call.pc = PORT_31
     THEN /\ adding' = (adding \ {call}) \cup {[call EXCEPT !.pc = PORT_33]}
          /\ UNCHANGED <<is_running, removers>>
     ELSE /\ adding' = adding \ {call}
          /\ is_running' = TRUE
          /\ removers' = removers \cup {call.key}
  /\ UNCHANGED <<seen, on_device_found, delivered, escaped, devVars, calc, brokerVars>>

\* _start: create_datagram_endpoint raises OSError (the port is in use, by
\* this scanner or by another process); add_listener raises it on.
EndpointFailed(call) ==
  /\ call \in adding
  /\ adding' = adding \ {call}
  /\ UNCHANGED <<seen, on_device_found, is_running, transport, removers,
                 delivered, escaped, devVars, calc, brokerVars>>

\* DeviceScanner._stop
StoppedTransports ==
  IF is_running
  THEN [p \in Ports |-> IF transport[p] = "open" THEN "closing" ELSE transport[p]]
  ELSE transport

\* The remove closure returned by add_listener is called, for the first
\* time or again.
Remove(key) ==
  /\ key \in removers
  /\ on_device_found' = Pop(on_device_found, key)
  /\ IF Pop(on_device_found, key) = <<>>
     THEN transport' = StoppedTransports /\ is_running' = FALSE
     ELSE UNCHANGED <<transport, is_running>>
  /\ UNCHANGED <<seen, adding, removers, delivered, escaped, devVars, calc, brokerVars>>

\* The event loop releases the socket of a closed transport.
TransportClosed(port) ==
  /\ transport[port] = "closing"
  /\ transport' = [transport EXCEPT ![port] = "closed"]
  /\ UNCHANGED <<seen, on_device_found, is_running, adding, removers,
                 delivered, escaped, devVars, calc, brokerVars>>

\* ------------------------------------------------------------ frame codec

\* Byte strings are sequences of pieces; every piece has its length n in
\* bytes and what is known of its content:
\*   "ver"   the ASCII protocol version, "zeros" zero bytes,
\*   "json"  the text of a JSON object, "aes" an AES-ECB ciphertext,
\*   "b64"   the base64 text of a byte string, "md5" hex digits of a digest,
\*   "word"  one big-endian 32-bit word of a frame, "crc" the CRC32 word,
\*   "torn"  what is left of a piece that a slice has cut through,
\*   "junk"  bytes that are none of these.
RECURSIVE ByteLen(_)
ByteLen(b) == IF b = <<>> THEN 0 ELSE b[1].n + ByteLen(Tail(b))

\* b[k:]
RECURSIVE Drop(_, _)
Drop(b, k) ==
  IF k = 0 \/ b = <<>> THEN b
  ELSE IF b[1].n <= k THEN Drop(Tail(b), k - b[1].n)
  ELSE <<[k |-> "torn", n |-> b[1].n - k]>> \o Tail(b)

\* b[:-k]
RECURSIVE DropLast(_, _)
DropLast(b, k) ==
  IF k = 0 \/ b = <<>> THEN b
  ELSE LET l == b[Len(b)]
           front == SubSeq(b, 1, Len(b) - 1)
       IN  IF l.n <= k THEN DropLast(front, k - l.n)
           ELSE front \o <<[k |-> "torn", n |-> l.n - k]>>

PROTOCOL_VERSION_BYTES_31 == <<[k |-> "ver", v |-> "3.1", n |-> 3]>>

PROTOCOL_VERSION_BYTES_33 == <<[k |-> "ver", v |-> "3.3", n |-> 3]>>

PROTOCOL_33_HEADER == PROTOCOL_VERSION_BYTES_33 \o <<[k |-> "zeros", n |-> 12]>>

\* bytes.startswith
StartsWith(b, prefix) ==
  /\ Len(b) >= Len(prefix)
  /\ SubSeq(b, 1, Len(prefix)) = prefix

\* payload.startswith(b"{")
StartsWithBrace(b) == b # <<>> /\ b[1].k = "json"

\* The command codes of TUYA_COMMANDS["default"].
AP_CONFIG == 1

STATUS == 8

HEART_BEAT == 9

CONTROL_NEW == 13

DP_QUERY_NEW == 16

UPDATEDPS == 18

\* TUYA_COMMANDS["default"]: the hexByte and the keys of the JSON template
\* of each command.
TUYA_COMMANDS ==
  [c \in {AP_CONFIG, CONTROL, STATUS, HEART_BEAT, DP_QUERY, CONTROL_NEW,
          DP_QUERY_NEW, UPDATEDPS} |->
     CASE c = AP_CONFIG    -> [hexByte |-> "01", command |-> {"gwId", "devId", "uid", "t"}]
       [] c = CONTROL      -> [hexByte |-> "07", command |-> {"devId", "uid", "t"}]
       [] c = STATUS       -> [hexByte |-> "08", command |-> {"gwId", "devId"}]
       [] c = HEART_BEAT   -> [hexByte |-> "09", command |-> {"gwId", "devId"}]
       [] c = DP_QUERY     -> [hexByte |-> "0a", command |-> {"gwId", "devId", "uid", "t"}]
       [] c = CONTROL_NEW  -> [hexByte |-> "0d", command |-> {"devId", "uid", "t"}]
       [] c = DP_QUERY_NEW -> [hexByte |-> "0f", command |-> {"devId", "uid", "t"}]
       [] c = UPDATEDPS    -> [hexByte |-> "12", command |-> {"dpId"}]]

\* int(command_hb, 16)
HexByteValue(hb) ==
  CASE hb = "01" -> 1 [] hb = "07" -> 7 [] hb = "08" -> 8 [] hb = "09" -> 9
    [] hb = "0a" -> 10 [] hb = "0d" -> 13 [] hb = "0f" -> 15 [] hb = "12" -> 18

\* The values a caller may put in the data of a command: one without and
\* one with a space.
DataValues == {"true", "a b"}

\* The data of a command: None, or a map from a data-point code to a value.
CodecData == {NoMap} \cup {Some([c \in {"1"} |-> v]) : v \in DataValues}

LocalKeys == {"keyA", "keyB"}

\* str.replace(" ", "") on a value.
StripSpaces(v) == IF v = "a b" THEN "ab" ELSE v

\* The JSON object _generate_payload builds from the template: its keys,
\* the id in gwId/devId/uid, the timestamp in t, and the data in dps or dpId
\* (dpId keeps its template value when there is no data).
RequestJson(command, id, timestamp, data) ==
  LET template == TUYA_COMMANDS[command].command
  IN  [keys |-> IF data.some /\ "dpId" \notin template
                THEN template \cup {"dps"} ELSE template,
       id |-> id, t |-> timestamp, data |-> data]

\* json.dumps(json_data).replace(" ", "").encode("utf-8"): the text of the
\* object, every space removed, those inside string values included. (The
\* length is of the right order; what matters of it is that it is no
\* multiple of the cipher block.)
Dumps(j) ==
  <<[k |-> "json",
     j |-> [j EXCEPT !.data =
              IF @.some THEN Some([c \in DOMAIN @.map |-> StripSpaces(@.map[c])])
              ELSE @],
     n |-> 2 + 13 * Cardinality(j.keys)]>>

\* AESCipher.encrypt: pad to the next multiple of 16, encrypt, and
\* base64-encode when asked to.
Encrypt(key, raw, use_base64) ==
  LET crypted == <<[k |-> "aes", key |-> key, plain |-> raw,
                    n |-> 16 * ((ByteLen(raw) \div 16) + 1)]>>
  IN  IF use_base64
      THEN <<[k |-> "b64", body |-> crypted,
              n |-> 4 * ((ByteLen(crypted) + 2) \div 3)]>>
      ELSE crypted

\* hexdigest[8:][:16] of the MD5 of "data=" + payload + "||lpv=3.1||" + key.
Signature(payload, key) ==
  <<[k |-> "md5", of |-> payload, key |-> key, n |-> 16]>>

\* What a function returns or raises.
Returns(v) == [ok |-> TRUE, val |-> v]

Raises(e) == [ok |-> FALSE, exc |-> e]

\* A payload builder that never prefixes the 3.3 header (a variant of
\* EncodedPayload against which C22 is checked).
EncodedPayload_NoHeader(command, id, local_key, vers, timestamp, data) ==
  LET hb == TUYA_COMMANDS[command].hexByte
      payload == Dumps(RequestJson(command, id, timestamp, data))
  IN  IF hb = "0d" THEN Raises("NotImplementedError")
      ELSE Returns(IF vers = "3.3" THEN Encrypt(local_key, payload, FALSE)
                   ELSE payload)

\* _generate_payload up to the payload of the frame: the JSON text,
\* encrypted for version 3.3; then either the 3.3 header in front of it, or
\* (elif) the 3.1 encryption and signature of a control command.
EncodedPayload(command, id, local_key, vers, timestamp, data) ==
  LET hb == TUYA_COMMANDS[command].hexByte
      message == Dumps(RequestJson(command, id, timestamp, data))
      payload == IF vers = "3.3" THEN Encrypt(local_key, message, FALSE)
                 ELSE message
  IN  IF hb = "0d" THEN Raises("NotImplementedError")
      ELSE IF hb # "0a" /\ hb # "12"
      THEN Returns(PROTOCOL_33_HEADER \o payload)
      ELSE IF command = CONTROL
      THEN LET enc == Encrypt(local_key, payload, TRUE)
           IN  Returns(PROTOCOL_VERSION_BYTES_31 \o Signature(enc, local_key) \o enc)
      ELSE Returns(payload)

Word(name, val) == [k |-> "word", name |-> name, val |-> val, n |-> 4]

PREFIX_VALUE == 21930

SUFFIX_VALUE == 43605

\* TuyaProtocol._pack_message: prefix, seqno, cmd, length; the payload; the
\* CRC32 of all that, and the suffix.
pack_message(seqno, cmd, payload) ==
  LET buffer == <<Word("prefix", PREFIX_VALUE), Word("seqno", seqno),
                  Word("cmd", cmd), Word("length", ByteLen(payload) + 8)>>
                \o payload
  IN  buffer \o <<[k |-> "crc", of |-> buffer, n |-> 4],
                  Word("suffix", SUFFIX_VALUE)>>

\* TuyaProtocol._generate_payload
generate_payload(command, id, local_key, vers, sequence_number_, timestamp, data) ==
  LET payload == EncodedPayload(command, id, local_key, vers, timestamp, data)
  IN  IF payload.ok
      THEN Returns(pack_message(sequence_number_,
                                HexByteValue(TUYA_COMMANDS[command].hexByte),
                                payload.val))
      ELSE payload

\* A frame as a device sends it: the return code follows the length.
ResponseFrame(seqno, cmd, retcode, payload) ==
  LET buffer == <<Word("prefix", PREFIX_VALUE), Word("seqno", seqno),
                  Word("cmd", cmd), Word("length", ByteLen(payload) + 12),
                  Word("retcode", retcode)>>
                \o payload
  IN  buffer \o <<[k |-> "crc", of |-> buffer, n |-> 4],
                  Word("suffix", SUFFIX_VALUE)>>

\* TuyaProtocol.unpack_message: the first 20 bytes are the five words of a
\* response header, the last 8 the CRC and the suffix, the bytes between
\* the payload. struct.unpack raises when there are fewer bytes.
unpack_message(data) ==
  IF ByteLen(data) < 20 THEN Raises("struct.error")
  ELSE Returns([seqno |-> data[2].val, cmd |-> data[3].val,
                payload |-> Drop(DropLast(data, 8), 20)])

\* AESCipher.decrypt: base64-decode when asked to, decrypt, unpad, decode
\* as UTF-8. Only the ciphertext of the same key gives back its plaintext;
\* bytes that are no whole ciphertext, or that of another key, raise (the
\* block size, the padding byte or the UTF-8 decoding fails).
Decrypt(key, enc, use_base64) ==
  LET raw == IF ~use_base64 THEN enc
             ELSE IF Len(enc) = 1 /\ enc[1].k = "b64" THEN enc[1].body
             ELSE <<[k |-> "junk", n |-> 1]>>
  IN  IF raw = <<>> THEN Raises("TypeError")
      ELSE IF Len(raw) = 1 /\ raw[1].k = "aes" /\ raw[1].key = key
      THEN Returns(raw[1].plain)
      ELSE Raises("ValueError")

\* A decoder that strips 16 bytes for the 3.3 header (a variant of
\* decode_payload against which C25 is checked).
decode_payload_Strip16(payload, local_key, vers) ==
  IF payload = <<>> THEN Returns(<<>>)
  ELSE IF StartsWith(payload, PROTOCOL_VERSION_BYTES_31)
  THEN Decrypt(local_key, Drop(Drop(payload, 3), 16), TRUE)
  ELSE IF vers = "3.3"
  THEN LET p == IF StartsWith(payload, PROTOCOL_VERSION_BYTES_33)
                THEN Drop(payload, 16) ELSE payload
       IN  IF p # <<>> THEN Decrypt(local_key, p, FALSE) ELSE Returns(<<>>)
  ELSE IF StartsWithBrace(payload) THEN Returns(payload)
  ELSE Raises("ValueError")

\* TuyaProtocol._decode_payload
decode_payload(payload, local_key, vers) ==
  IF payload = <<>> THEN Returns(<<>>)
  ELSE IF StartsWith(payload, PROTOCOL_VERSION_BYTES_31)
  THEN Decrypt(local_key, Drop(Drop(payload, ByteLen(PROTOCOL_VERSION_BYTES_31)), 16),
               TRUE)
  ELSE IF vers = "3.3"
  THEN LET p == IF StartsWith(payload, PROTOCOL_VERSION_BYTES_33)
                THEN Drop(payload, ByteLen(PROTOCOL_33_HEADER)) ELSE payload
       IN  IF p # <<>> THEN Decrypt(local_key, p, FALSE) ELSE Returns(<<>>)
  ELSE IF StartsWithBrace(payload) THEN Returns(payload)
  ELSE Raises("ValueError")

\* json.loads of a decoded text: the object, when the text is that of one.
IsJsonText(text) == Len(text) = 1 /\ text[1].k = "json"

\* data_received: what unpack_message, _decode_payload and json.loads make
\* of the received bytes, as the chunk kinds of ReceivedData.
Received(data, local_key, vers) ==
  LET msg == unpack_message(data)
      text == decode_payload(msg.val.payload, local_key, vers)
  IN  IF ~msg.ok THEN [frame |-> "short"]
      ELSE IF ~text.ok THEN [frame |-> "ok", payload |-> "bad"]
      ELSE IF text.val = <<>> THEN [frame |-> "ok", payload |-> "empty"]
      ELSE IF IsJsonText(text.val)
      THEN [frame |-> "ok", payload |-> "json", json |-> text.val[1].j]
      ELSE [frame |-> "ok", payload |-> "bad"]

\* The result of a function that has not been called yet.
NotCalled == Raises("not called")

\* The calls of _generate_payload that are followed: every command of the
\* table, both protocol generations, with and without data.
EncodeCalls ==
  [fn : {"encode"}, stage : {"args"}, command : DOMAIN TUYA_COMMANDS,
   id : {"d1"}, local_key : LocalKeys, vers : Versions, seqno : {1, 2},
   timestamp : {"1600000000"}, data : CodecData,
   payload : {NotCalled}, frame : {NotCalled}, back : {NotCalled}]

\* The JSON objects a device answers with.
ResponseJsons ==
  {JsonNoDps} \cup {JsonDps(m) : m \in {x \in DpsMaps : DpsCodes(x) = {1}}}

ResponseText(j) == <<[k |-> "json", j |-> j, n |-> 30]>>

\* The payloads a device may put in a response frame: nothing; a signed
\* 3.1 ciphertext, or the 3.1 version and signature with nothing behind; a
\* 3.3 ciphertext with or without the header, the header alone, or a
\* ciphertext behind "3.3" and 13 zero bytes; plain JSON; other bytes.
ReceivedPayloads ==
  {<<>>, PROTOCOL_33_HEADER, <<[k |-> "junk", n |-> 8]>>,
   PROTOCOL_VERSION_BYTES_31 \o <<[k |-> "junk", n |-> 16]>>}
  \cup {ResponseText(j) : j \in ResponseJsons}
  \cup UNION {
         {LET enc == Encrypt(key, ResponseText(j), TRUE)
          IN  PROTOCOL_VERSION_BYTES_31 \o Signature(enc, key) \o enc,
          PROTOCOL_33_HEADER \o Encrypt(key, ResponseText(j), FALSE),
          Encrypt(key, ResponseText(j), FALSE),
          PROTOCOL_VERSION_BYTES_33 \o <<[k |-> "zeros", n |-> 13]>>
            \o Encrypt(key, ResponseText(j), FALSE)}
         : key \in LocalKeys, j \in ResponseJsons}

\* The receptions that are followed: a payload in a response frame, read
\* with a local key under a declared version.
DecodeCalls ==
  [fn : {"decode"}, stage : {"args"}, payload : ReceivedPayloads,
   local_key : LocalKeys, vers : Versions,
   text : {NotCalled}, outcome : {Pending}]

\* _generate_payload is called: the payload of the frame, and the frame.
GeneratePayload ==
  /\ calc.fn = "encode" /\ calc.stage = "args"
  /\ calc' = [calc EXCEPT
       !.stage = "encoded",
       !.payload = EncodedPayload(calc.command, calc.id, calc.local_key,
                                  calc.vers, calc.timestamp, calc.data),
       !.frame = generate_payload(calc.command, calc.id, calc.local_key,
                                  calc.vers, calc.seqno, calc.timestamp,
                                  calc.data)]
  /\ UNCHANGED <<devVars, scanVars, brokerVars>>

\* The frame just encoded is given to the decoder: unpack_message, then
\* _decode_payload with the same key and version, then json.loads.
DecodeEncoded ==
  /\ calc.fn = "encode" /\ calc.stage = "encoded"
  /\ calc.frame.ok
  /\ calc' = [calc EXCEPT
       !.stage = "decoded",
       !.back = Returns(Received(calc.frame.val, calc.local_key, calc.vers))]
  /\ UNCHANGED <<devVars, scanVars, brokerVars>>

\* data_received is given a response frame with the payload: the text
\* _decode_payload makes of the payload, and the outcome of the exchange.
DecodeReceived ==
  /\ calc.fn = "decode" /\ calc.stage = "args"
  /\ calc' = [calc EXCEPT
       !.stage = "decoded",
       !.text = decode_payload(calc.payload, calc.local_key, calc.vers),
       !.outcome = data_received(
                     Received(ResponseFrame(1, DP_QUERY, 0, calc.payload),
                              calc.local_key, calc.vers))]
  /\ UNCHANGED <<devVars, scanVars, brokerVars>>

\* What may follow a response frame in the chunk data_received is given:
\* nothing, a second response frame, or other bytes.
Trailing ==
  {<<>>, <<[k |-> "junk", n |-> 8]>>}
  \cup {ResponseFrame(2, DP_QUERY, 0, ResponseText(j)) : j \in ResponseJsons}

\* The receptions of a chunk that are followed: a response frame with a
\* payload, and what follows it in the chunk.
ReceiveCalls ==
  [fn : {"receive"}, stage : {"args"}, payload : ReceivedPayloads,
   trailing : Trailing, local_key : LocalKeys, vers : Versions,
   chunk : {<<>>}, msg : {NotCalled}, outcome : {Pending}]

\* data_received is given the chunk: the message unpack_message makes of
\* it, and the outcome of the exchange.
ReceiveChunk ==
  /\ calc.fn = "receive" /\ calc.stage = "args"
  /\ LET data == ResponseFrame(1, DP_QUERY, 0, calc.payload) \o calc.trailing
     IN  calc' = [calc EXCEPT
           !.stage = "received",
           !.chunk = data,
           !.msg = unpack_message(data),
           !.outcome = data_received(Received(data, calc.local_key, calc.vers))]
  /\ UNCHANGED <<devVars, scanVars, brokerVars>>

\* ------------------------------------------------------------- device model

\* ValueRange(min, max): a NamedTuple of two integers.
ValueRange(min_, max_) == [min |-> min_, max |-> max_]

Abs(x) == IF x < 0 THEN -x ELSE x

Max(a, b) == IF a < b THEN b ELSE a

\* int(): the quotient a / b truncated toward zero.
TruncDiv(a, b) ==
  LET q == Abs(a) \div Abs(b)
  IN  IF (a < 0) = (b < 0) THEN q ELSE -q

\* Variant: value1 times the ratio of the widths, without the offsets.
scale_value_Proportional(value1, range1, range2) ==
  IF range1.max = range1.min THEN Raises("ZeroDivisionError")
  ELSE Returns(TruncDiv(value1 * (range2.max - range2.min),
                        range1.max - range1.min))

\* Variant: the distance is taken from the wrong end of range2.
scale_value_Mirrored(value1, range1, range2) ==
  IF range1.max = range1.min THEN Raises("ZeroDivisionError")
  ELSE Returns(TruncDiv(
         range2.min * (range1.max - range1.min)
           + (range2.max - range2.min) * (range1.max - value1),
         range1.max - range1.min))

\* scale_value: range2.max - factor * (range1.max - value1), truncated,
\* with factor the ratio of the widths. The quotient is taken exactly; on
\* the ranges of ScaleCalls the floating-point result of the code is the
\* same integer.
scale_value(value1, range1, range2) ==
  IF range1 = range2 THEN Returns(value1)
  ELSE IF value1 = range1.min THEN Returns(range2.min)
  ELSE IF value1 = range1.max THEN Returns(range2.max)
  ELSE IF range1.max = range1.min THEN Raises("ZeroDivisionError")
  ELSE Returns(TruncDiv(
         range2.max * (range1.max - range1.min)
           - (range2.max - range2.min) * (range1.max - value1),
         range1.max - range1.min))

\* The generic ranges the integration configures (TUYA_MAPPINGS): the
\* brightness, the hue, saturation and value, and the colour temperature
\* in mired from 2700 K (370) to 6500 K (153).
HA_RANGE_255 == ValueRange(0, 255)

HA_HSV_RANGE == <<ValueRange(0, 360), ValueRange(0, 100), ValueRange(1, 255)>>

COLOR_TEMP_RANGE == ValueRange(370, 153)

\* The protocol ranges of the device model.
RANGE_255 == ValueRange(0, 255)

TUYA_HSV_RANGE == <<ValueRange(0, 360), ValueRange(0, 255), ValueRange(0, 255)>>

\* TuyaDevice.build_map(**TUYA_MAPPINGS): the ranges of _map_from_tuya are
\* the configured ones, those of _map_to_tuya are fixed.
map_from_tuya ==
  [range_brightness |-> HA_RANGE_255,
   range_hsv |-> HA_HSV_RANGE,
   range_color_temperature |-> COLOR_TEMP_RANGE]

map_to_tuya ==
  [range_brightness |-> RANGE_255,
   range_hsv |-> TUYA_HSV_RANGE,
   range_color_temperature |-> RANGE_255]

\* The values between the two ends of a range, whichever is the larger.
Within(r) == Min(r.min, r.max) .. Max(r.min, r.max)

\* The small ranges scale_value is explored on, degenerate ones included.
SmallRanges == {ValueRange(a, b) : a, b \in 0 .. MaxEndpoint}

\* The pairs of ranges the getters and setters pass to scale_value.
UsedRangePairs ==
  LET pairs == {<<map_from_tuya.range_brightness, map_to_tuya.range_brightness>>,
                <<map_from_tuya.range_color_temperature,
                  map_to_tuya.range_color_temperature>>}
               \cup {<<map_from_tuya.range_hsv[i], map_to_tuya.range_hsv[i]>>
                       : i \in 1 .. 3}
  IN  pairs \cup {<<p[2], p[1]>> : p \in pairs}

\* The calls of scale_value that are followed: every value of a small
\* range or one beside it, between any two small ranges; and every value
\* of a range in use, scaled to its counterpart.
ScaleCalls ==
  [fn : {"scale"}, stage : {"args"}, value1 : 0 .. MaxEndpoint,
   range1 : SmallRanges, range2 : SmallRanges, result : {NotCalled}]
  \cup UNION {[fn : {"scale"}, stage : {"args"}, value1 : Within(p[1]),
               range1 : {p[1]}, range2 : {p[2]}, result : {NotCalled}]
              : p \in UsedRangePairs}

\* scale_value is called.
ScaleValue ==
  /\ calc.fn = "scale" /\ calc.stage = "args"
  /\ calc' = [calc EXCEPT
       !.stage = "done",
       !.result = scale_value(calc.value1, calc.range1, calc.range2)]
  /\ UNCHANGED <<devVars, scanVars, brokerVars>>

\* TUYA_CODES, and the sets of codes that stand for one capability.
SWITCH_1 == "switch_1"

SWITCH_LED == "switch_led"

BRIGHT_VALUE == "bright_value"

BRIGHT_VALUE_V2 == "bright_value_v2"

COLOUR_DATA == "colour_data"

TURN_ON_CODES == {SWITCH_LED, SWITCH_1}

BRIGHTNESS_CODES == {BRIGHT_VALUE, BRIGHT_VALUE_V2}

COLOR_CODES == {COLOUR_DATA}

\* `code = CODES & attributes if attributes else None`, then
\* `code.pop() if code else None`: the codes the property may return. Which
\* element set.pop() removes from a set of two strings depends on the
\* hashes of the process, so either may come out.
CapabilityCode(CODES, attrs) ==
  IF attrs = {} THEN {None}
  ELSE IF CODES \cap attrs = {} THEN {None}
  ELSE CODES \cap attrs

brightness_code(attrs) == CapabilityCode(BRIGHTNESS_CODES, attrs)

power_code(attrs) == CapabilityCode(TURN_ON_CODES, attrs)

color_code(attrs) == CapabilityCode(COLOR_CODES, attrs)

\* A dict with one data point, as the setters return it.
OneDp(code, value) == Some([c \in {code} |-> value])

\* TuyaDevice.set_brightness, with code the value of self.brightness_code:
\* the data point to write, or None.
set_brightness(code, value) ==
  IF code # None /\ code = BRIGHT_VALUE
  THEN LET v == scale_value(value, map_from_tuya.range_brightness,
                            map_to_tuya.range_brightness).val
       IN  OneDp(code, Max(25, v))
  ELSE NoMap

\* The attribute names a device may be registered with.
AttributeSets ==
  SUBSET {SWITCH_LED, SWITCH_1, BRIGHT_VALUE, BRIGHT_VALUE_V2, COLOUR_DATA}

\* The calls of set_brightness that are followed: any device whose
\* attributes hold no colour or power code, any brightness of the generic
\* range.
BrightnessCalls ==
  [fn : {"set_brightness"}, stage : {"args"},
   attrs : {a \in AttributeSets : a \subseteq BRIGHTNESS_CODES \cup {SWITCH_LED}},
   value : Within(map_from_tuya.range_brightness),
   code : {None}, dps : {NoMap}]

\* set_brightness is called: self.brightness_code is read, then the data
\* point is built.
SetBrightness ==
  /\ calc.fn = "set_brightness" /\ calc.stage = "args"
  /\ \E code \in brightness_code(calc.attrs) :
       calc' = [calc EXCEPT
         !.stage = "done",
         !.code = code,
         !.dps = set_brightness(code, calc.value)]
  /\ UNCHANGED <<devVars, scanVars, brokerVars>>

\* A string of hexadecimal digits is a sequence of the digits' values.
RECURSIVE HexDigits(_)
HexDigits(n) == IF n < 16 THEN <<n>> ELSE HexDigits(n \div 16) \o <<n % 16>>

\* f"{n:0{width}x}" of a natural number: at least width digits, padded
\* with zeros on the left.
RECURSIVE ZeroPad(_, _)
ZeroPad(digits, width) ==
  IF Len(digits) >= width THEN digits ELSE ZeroPad(<<0>> \o digits, width)

Hex(n, width) == ZeroPad(HexDigits(n), width)

\* int(text, 16) of a string of hexadecimal digits.
RECURSIVE HexValue(_)
HexValue(digits) ==
  IF digits = <<>> THEN 0
  ELSE 16 * HexValue(SubSeq(digits, 1, Len(digits) - 1)) + digits[Len(digits)]

\* hexvalue[a:b] of Python: the characters a+1 .. b, as many as there are.
Slice(text, a, b) == SubSeq(text, a + 1, Min(b, Len(text)))

\* int(c * 255) for the three components of
\* colorsys.hsv_to_rgb(h / 360, s / 100, v / 255), in exact arithmetic (in
\* floating point a component may come out one lower; it stays in
\* 0 .. 255 and is not read back by color_hsv).
HsvToRgb(h, s, v) ==
  LET i == (h \div 60) % 6
      m == h % 60
      p == (v * (100 - s)) \div 100
      q == (v * (6000 - s * m)) \div 6000
      t == (v * (6000 - s * (60 - m))) \div 6000
  IN  IF s = 0 THEN <<v, v, v>>
      ELSE CASE i = 0 -> <<v, t, p>>
             [] i = 1 -> <<q, v, p>>
             [] i = 2 -> <<p, v, t>>
             [] i = 3 -> <<p, q, v>>
             [] i = 4 -> <<t, p, v>>
             [] i = 5 -> <<v, p, q>>

\* Variant: the string is formatted without the reserved nibble.
set_color_hsv_NoReserved(code, color) ==
  IF code # None /\ code = COLOUR_DATA
  THEN LET rgb == HsvToRgb(color[1], color[2], color[3])
           scaled == [i \in 1 .. 3 |->
                        scale_value(color[i], map_from_tuya.range_hsv[i],
                                    map_to_tuya.range_hsv[i]).val]
       IN  OneDp(code, Hex(rgb[1], 2) \o Hex(rgb[2], 2) \o Hex(rgb[3], 2)
                         \o Hex(scaled[1], 3) \o Hex(scaled[2], 2)
                         \o Hex(scaled[3], 2))
  ELSE NoMap

\* TuyaDevice.set_color_hsv, with code the value of self.color_code: the
\* data point f"{r:02x}{g:02x}{b:02x}0{h:03x}{s:02x}{v:02x}", or None.
set_color_hsv(code, color) ==
  IF code # None /\ code = COLOUR_DATA
  THEN LET rgb == HsvToRgb(color[1], color[2], color[3])
           scaled == [i \in 1 .. 3 |->
                        scale_value(color[i], map_from_tuya.range_hsv[i],
                                    map_to_tuya.range_hsv[i]).val]
       IN  OneDp(code, Hex(rgb[1], 2) \o Hex(rgb[2], 2) \o Hex(rgb[3], 2)
                         \o <<0>> \o Hex(scaled[1], 3) \o Hex(scaled[2], 2)
                         \o Hex(scaled[3], 2))
  ELSE NoMap

\* TuyaDevice.color_hsv, with code the value of self.color_code and state
\* the device's state: the triple read from the characters [7:10], [10:12]
\* and [12:14] of a string of 14, each scaled back; ValueError otherwise.
color_hsv(code, state_) ==
  IF /\ code # None /\ Truthy(state_) /\ code \in DOMAIN state_.map
     /\ code = COLOUR_DATA
     /\ Len(state_.map[code]) = 14
  THEN LET hexvalue == state_.map[code]
           raw == <<HexValue(Slice(hexvalue, 7, 10)),
                    HexValue(Slice(hexvalue, 10, 12)),
                    HexValue(Slice(hexvalue, 12, 14))>>
       IN  Returns([i \in 1 .. 3 |->
                      scale_value(raw[i], map_to_tuya.range_hsv[i],
                                  map_from_tuya.range_hsv[i]).val])
  ELSE Raises(UnsupportedCapability)

\* The hues, saturations and values the colour calls are followed for.
HueSamples == {0, 1, 59, 60, 255, 256, 359, 360}

SaturationSamples == {0, 1, 50, 99, 100}

ValueSamples == {1, 2, 128, 254, 255}

\* The calls of set_color_hsv that are followed: on a device with the
\* colour code, a sampled hue with every saturation and a sampled value,
\* or with a sampled saturation and every value; on a device without, a
\* few triples.
HsvCalls ==
  LET colors ==
        (HueSamples \X Within(map_from_tuya.range_hsv[2]) \X ValueSamples)
        \cup (HueSamples \X SaturationSamples
                \X Within(map_from_tuya.range_hsv[3]))
  IN  [fn : {"hsv"}, stage : {"args"}, attrs : {{COLOUR_DATA}},
       color : colors, code : {None}, dps : {NoMap}, back : {NotCalled}]
      \cup [fn : {"hsv"}, stage : {"args"}, attrs : {{SWITCH_LED}},
            color : HueSamples \X SaturationSamples \X ValueSamples,
            code : {None}, dps : {NoMap}, back : {NotCalled}]

\* set_color_hsv is called: self.color_code is read, then the data point
\* is built.
SetColorHsv ==
  /\ calc.fn = "hsv" /\ calc.stage = "args"
  /\ \E code \in color_code(calc.attrs) :
       calc' = [calc EXCEPT
         !.stage = "encoded",
         !.code = code,
         !.dps = set_color_hsv(code, calc.color)]
  /\ UNCHANGED <<devVars, scanVars, brokerVars>>

\* The data point is the device's state (None when there is nothing to
\* write), and color_hsv is read.
ColorHsv ==
  /\ calc.fn = "hsv" /\ calc.stage = "encoded"
  /\ \E code \in color_code(calc.attrs) :
       calc' = [calc EXCEPT
         !.stage = "decoded",
         !.back = color_hsv(code, calc.dps)]
  /\ UNCHANGED <<devVars, scanVars, brokerVars>>

\* TuyaDevice.power_state, with code the value of self.power_code and
\* state the device's state: the value under the code, or False.
power_state(code, state_) ==
  IF code # None /\ Truthy(state_) /\ code \in DOMAIN state_.map
  THEN Returns(state_.map[code])
  ELSE Returns(FALSE)

\* TuyaDevice.set_power_state, with code the value of self.power_code: the
\* data point to write, or ValueError("Power state is unsupported").
set_power_state(code, value) ==
  IF code # None /\ code = SWITCH_LED THEN Returns(OneDp(code, value))
  ELSE IF code # None /\ code = SWITCH_1 THEN Returns(OneDp(code, value))
  ELSE Raises(UnsupportedCapability)

\* The attribute sets the power calls are followed for.
PowerAttributes ==
  {a \in AttributeSets : a \subseteq TURN_ON_CODES \cup {BRIGHT_VALUE}}

\* The states such a device may have: None before the first fetch, then a
\* mapping with a boolean under some of the power codes.
PowerStates ==
  {NoMap} \cup {Some(m) : m \in UNION {[K -> BOOLEAN] : K \in SUBSET TURN_ON_CODES}}

\* The reads of power_state and the calls of set_power_state that are
\* followed.
PowerCalls ==
  [fn : {"power_state"}, stage : {"args"}, attrs : PowerAttributes,
   state : PowerStates, code : {None}, result : {NotCalled}]
  \cup [fn : {"set_power_state"}, stage : {"args"}, attrs : PowerAttributes,
        value : BOOLEAN, code : {None}, result : {NotCalled}]

\* power_state is read: self.power_code, then the state.
PowerState ==
  /\ calc.fn = "power_state" /\ calc.stage = "args"
  /\ \E code \in power_code(calc.attrs) :
       calc' = [calc EXCEPT
         !.stage = "done",
         !.code = code,
         !.result = power_state(code, calc.state)]
  /\ UNCHANGED <<devVars, scanVars, brokerVars>>

\* set_power_state is called: self.power_code, then the data point.
SetPowerState ==
  /\ calc.fn = "set_power_state" /\ calc.stage = "args"
  /\ \E code \in power_code(calc.attrs) :
       calc' = [calc EXCEPT
         !.stage = "done",
         !.code = code,
         !.result = set_power_state(code, calc.value)]
  /\ UNCHANGED <<devVars, scanVars, brokerVars>>

\* ------------------------------------------------------------ specification

InitSystem ==
  /\ ip = [d \in Devices |-> None]
  /\ version = [d \in Devices |-> None]
  /\ code_to_name = [d \in Devices |-> NoMap]
  /\ name_to_code = [d \in Devices |-> NoMap]
  /\ state = [d \in Devices |-> NoMap]
  /\ failed_connect = [d \in Devices |-> 0]
  /\ sequence_number = 0
  /\ task = [d \in Devices |-> IdleTask]
  /\ proto = [d \in Devices |-> NoProto]
  /\ exch = [d \in Devices |-> <<>>]
  /\ ret = [d \in Devices |-> NoCall]
  /\ unreached = [d \in Devices |-> 0]
  /\ open_conns = {}
  /\ gather = [d \in Devices |-> "none"]
  /\ seen = {}
  /\ on_device_found = <<>>
  /\ is_running = FALSE
  /\ transport = [p \in Ports |-> "none"]
  /\ adding = {}
  /\ removers = {}
  /\ delivered = [k \in Keys |-> [r \in ScanResults |-> 0]]
  /\ escaped = FALSE
  /\ created = <<>>
  /\ heard = [d \in Devices |-> Unheard]

Init ==
  /\ InitSystem
  /\ calc = NoCalc

\* The device whose calls SpecDevice explores; the other registered
\* devices stay as constructed.
Explored == {"d1"}

NextDevice ==
  \E d \in Explored :
    \/ \E r \in OwnAnnouncements(d) : Apply(d, r)
    \/ FetchState(d)
    \/ \E value \in ValueMaps : SetState(d, value)
    \/ \E e \in ConnectErrors : ConnectFailed(d, e)
    \/ ConnectionMade(d)
    \/ \E data \in ReceivedData(proto[d].command) : DataReceived(d, data)
    \/ EofReceived(d)
    \/ \E exc \in LostErrors \cup {None} : ConnectionLost(d, exc)
    \/ LanControlReturns(d)
    \/ TaskCancelled(d)

SpecDevice == Init /\ [][NextDevice]_vars

\* The event loop runs what is ready: a connection attempt ends (the
\* socket layer gives up on its own), and a coroutine whose awaited
\* outcome is resolved is resumed. Nothing obliges the device to answer or
\* to close, and _lan_control awaits proto.outcome without a timeout.
SpecDeviceLive ==
  /\ Init
  /\ [][NextDevice]_vars
  /\ WF_vars(\E d \in Devices :
               ConnectionMade(d) \/ \E e \in ConnectErrors : ConnectFailed(d, e))
  /\ WF_vars(\E d \in Devices : LanControlReturns(d))

\* What the devices send back while the fan-out is explored: a chunk too
\* short for a frame, a frame with an empty payload, or a dps map with the
\* first or the first two codes.
FanOutData ==
  {x \in ReceivedData(DP_QUERY) :
     IF x.frame = "short" THEN TRUE
     ELSE IF x.payload = "empty" THEN TRUE
     ELSE IF x.payload # "json" THEN FALSE
     ELSE IF x.json.kind # "dps" THEN FALSE
     ELSE /\ DpsCodes(x.json.dps) \in {{1}, {1, 2}}
          /\ \A i \in DOMAIN x.json.dps : x.json.dps[i].value = 1}

\* Broker.update_all_states fanning fetch_state out over the devices that
\* the scanner has given an address.
NextFanOut ==
  \/ \E d \in Devices : \E r \in OwnAnnouncements(d) : Apply(d, r)
  \/ UpdateAllStates
  \/ \E d \in Devices : ChildStarts(d)
  \/ \E d \in Devices : ConnectFailed(d, "ConnectionRefusedError")
  \/ \E d \in Devices : ConnectionMade(d)
  \/ \E d \in Devices : \E data \in FanOutData : DataReceived(d, data)
  \/ \E d \in Devices : ConnectionLost(d, "ConnectionResetError")
  \/ \E d \in Devices : LanControlReturns(d)
  \/ WaitForTimeout
  \/ \E d \in Devices : ChildCancelled(d)

SpecFanOut == Init /\ [][NextFanOut]_vars

\* The frame codec: a call of the encoder followed by the decoding of its
\* frame, or the reception of a response, alone or with bytes behind it.
InitCodec ==
  /\ InitSystem
  /\ calc \in EncodeCalls \cup DecodeCalls \cup ReceiveCalls

NextCodec ==
  \/ GeneratePayload
  \/ DecodeEncoded
  \/ DecodeReceived
  \/ ReceiveChunk

SpecCodec == InitCodec /\ [][NextCodec]_vars

\* The device model: a call of scale_value or of a setter, and the getter
\* reading back what the setter wrote.
InitModel ==
  /\ InitSystem
  /\ calc \in ScaleCalls \cup BrightnessCalls \cup HsvCalls \cup PowerCalls

NextModel ==
  \/ ScaleValue
  \/ SetBrightness
  \/ SetColorHsv
  \/ ColorHsv
  \/ PowerState
  \/ SetPowerState

SpecModel == InitModel /\ [][NextModel]_vars

NextScanner ==
  \/ \E cb \in Callbacks, key \in Keys : AddListener(cb, key)
  \/ \E call \in [key : Keys, pc : Ports] : EndpointCreated(call)
  \/ \E call \in [key : Keys, pc : Ports] : EndpointFailed(call)
  \/ \E key \in Keys : Remove(key)
  \/ \E port \in Ports : TransportClosed(port)
  \/ \E port \in Ports, dg \in Datagrams : DatagramReceived(port, dg)

SpecScanner == Init /\ [][NextScanner]_vars

\* The broker after Broker.start on a scanner that has seen nothing yet:
\* on_new_device_found is the one registered callback and both sockets are
\* open.
InitBroker ==
  /\ ip = [d \in Devices |-> None]
  /\ version = [d \in Devices |-> None]
  /\ code_to_name = [d \in Devices |-> NoMap]
  /\ name_to_code = [d \in Devices |-> NoMap]
  /\ state = [d \in Devices |-> NoMap]
  /\ failed_connect = [d \in Devices |-> 0]
  /\ sequence_number = 0
  /\ task = [d \in Devices |-> IdleTask]
  /\ proto = [d \in Devices |-> NoProto]
  /\ exch = [d \in Devices |-> <<>>]
  /\ ret = [d \in Devices |-> NoCall]
  /\ unreached = [d \in Devices |-> 0]
  /\ open_conns = {}
  /\ gather = [d \in Devices |-> "none"]
  /\ seen = {}
  /\ on_device_found = <<[key |-> "k1", cb |-> BINDS]>>
  /\ is_running = TRUE
  /\ transport = [p \in Ports |-> "open"]
  /\ adding = {}
  /\ removers = {"k1"}
  /\ delivered = [k \in Keys |-> [r \in ScanResults |-> 0]]
  /\ escaped = FALSE
  /\ created = <<>>
  /\ heard = [d \in Devices |-> Unheard]
  /\ calc = NoCalc

\* What the devices send back while the binding is explored: a chunk too
\* short for a frame, or a dps map with the first code.
BrokerData ==
  {x \in FanOutData : x.frame # "short" => x.payload = "json" /\ DpsCodes(x.json.dps) = {1}}

\* Announcements reach the scanner, the set_result tasks of the broker run
\* and their fetches proceed.
NextBroker ==
  \/ \E port \in Ports, dg \in Datagrams : DatagramReceived(port, dg)
  \/ \E d \in Devices : SetResult(d)
  \/ \E d \in Devices : ConnectFailed(d, "ConnectionRefusedError")
  \/ \E d \in Devices : ConnectionMade(d)
  \/ \E d \in Devices : \E data \in BrokerData : DataReceived(d, data)
  \/ \E d \in Devices : ConnectionLost(d, "ConnectionResetError")
  \/ \E d \in Devices : LanControlReturns(d)

SpecBroker == InitBroker /\ [][NextBroker]_vars

\* ------------------------------------------------------------------ claims

Last(s) == s[Len(s)]

\* The connection failures of the error taxonomy (peer unreachable,
\* connection reset, timeout), as the socket layer raises them.
ConnectionFailure(e) == e \in TransportErrors

\* A step that ends the fetch_state call running on d.
FetchEnds(d) ==
  task[d].op = "fetch" /\ task[d].pc # "idle" /\ task'[d].pc = "idle"

\* A step that ends the set_state call running on d.
SetEnds(d) ==
  task[d].op = "set" /\ task[d].pc # "idle" /\ task'[d].pc = "idle"

\* The exchange of the fetch_state call on d has returned a dps map.
GotStatus(d) ==
  proto[d].outcome.st = "result" /\ proto[d].outcome.val.kind = "dps"

\* C1: a finished set_state call has made at most two exchanges; it made a
\* second one exactly when the first failed with a connection failure; and
\* it returned True exactly when one of its exchanges succeeded.
C1_SetStateAttempts ==
  \A d \in Devices :
    (ret[d].op = "set" /\ ret[d].result # "pending") =>
      /\ Len(exch[d]) <= 2
      /\ (Len(exch[d]) = 2) <=>
           (Len(exch[d]) >= 1 /\ ConnectionFailure(exch[d][1]))
      /\ (ret[d].result = "True") <=> ("ok" \in Range(exch[d]))

\* C2: a fetch_state call whose exchange ends in a connection failure adds
\* exactly one to the failure counter, makes no second exchange, leaves the
\* state and the code maps as they were and returns without raising.
C2_FetchConnectionFailure ==
  [][\A d \in Devices :
       (FetchEnds(d) /\ ConnectionFailure(Last(exch'[d]))) =>
         /\ failed_connect'[d] = failed_connect[d] + 1
         /\ Len(exch'[d]) = 1
         /\ state'[d] = state[d]
         /\ code_to_name'[d] = code_to_name[d]
         /\ name_to_code'[d] = name_to_code[d]
         /\ ret'[d].result = "None"]_vars

\* C3: a fetch_state call whose exchange returns a dps map replaces the
\* state by exactly the values of that map, keyed by attribute name, and
\* resets the failure counter to 0.
C3_FetchReplacesState ==
  [][\A d \in Devices :
       (FetchEnds(d) /\ GotStatus(d)) =>
         LET dps == proto[d].outcome.val.dps
             map == code_to_name'[d]
         IN  /\ map.some
             /\ DpsCodes(dps) \subseteq DOMAIN map.map
             /\ state'[d] = Some(NamedState(map.map, dps))
             /\ failed_connect'[d] = 0]_vars

\* C4: a fetch_state call on a device that has an ip never raises, and it
\* changes the state only when it stores a response all of whose codes are
\* in the code map.
C4_FetchNeverRaises ==
  [][\A d \in Devices :
       FetchEnds(d) =>
         /\ ret'[d].result = "None"
         /\ state'[d] # state[d] =>
              /\ GotStatus(d)
              /\ code_to_name'[d].some
              /\ DpsCodes(proto[d].outcome.val.dps)
                   \subseteq DOMAIN code_to_name'[d].map]_vars

\* C5: assumed_state is true exactly when the last four or more fetches in
\* a row, none of them followed by a successful fetch, could not reach the
\* device.
C5_AssumedState ==
  \A d \in Devices : assumed_state(d) <=> unreached[d] > 3

\* C6: a set_state call on a device whose name-to-code map is not yet
\* established raises ValueError at once: no exchange is started and the
\* state, the failure counter and the code maps stay as they were.
C6_SetStateNotReady ==
  [][\A d \in Devices, value \in ValueMaps :
       (SetState(d, value) /\ ~Truthy(name_to_code[d])) =>
         /\ ExceptionClass(ret'[d].result) = "ValueError"
         /\ task'[d].pc = "idle"
         /\ UNCHANGED <<sequence_number, proto, state, failed_connect,
                        code_to_name, name_to_code>>]_vars

\* C6 witness: a device with an ip and no code map on which set_state has
\* just raised the not-ready error.
C6_Witness ==
  \E d \in Devices :
    /\ ip[d] # None
    /\ ~Truthy(name_to_code[d])
    /\ ret[d] = [op |-> "set", result |-> "ValueError: No DPS codes found yet"]
    /\ exch[d] = <<>>
    /\ task[d].pc = "idle"

\* C7 as stated: set_state never raises, whatever the device's condition
\* and whatever the outcome of the exchange.
C7_SetStateNeverRaises ==
  \A d \in Devices :
    ret[d].op = "set" => ret[d].result \in {"pending", "True", "False"}

\* C7 amended: set_state raises only before its first exchange, and then a
\* ValueError or KeyError; once an exchange has been made every outcome is
\* reported as True or False.
C7_SetStateRaisesOnlyBeforeExchange ==
  \A d \in Devices :
    ret[d].op = "set" =>
      \/ ret[d].result \in {"pending", "True", "False"}
      \/ /\ exch[d] = <<>>
         /\ task[d].pc = "idle"
         /\ ExceptionClass(ret[d].result) \in {"ValueError", "KeyError"}

\* C7 witness: a set_state call whose only exchange failed with something
\* other than a connection error has returned False.
C7_Witness ==
  \E d \in Devices :
    /\ ret[d] = [op |-> "set", result |-> "False"]
    /\ Len(exch[d]) = 1
    /\ exch[d][1] # "ok"
    /\ ~IsConnectionError(exch[d][1])

\* C8: when set_state returns True the state of a device that has one is
\* the previous state overridden by the written pairs; when it returns
\* False the state is unchanged.
C8_SetStateMerges ==
  [][\A d \in Devices :
       SetEnds(d) =>
         /\ (ret'[d].result = "True" /\ state[d].some) =>
              state'[d] = Some(Update(state[d].map, task[d].value))
         /\ ret'[d].result = "False" => state'[d] = state[d]]_vars

\* C9: a set_state call naming an attribute that is not in the established
\* name-to-code map raises the error of the capability setters, starts no
\* exchange and leaves the state unchanged.
C9_SetStateUnknownName ==
  [][\A d \in Devices, value \in ValueMaps :
       (/\ SetState(d, value)
        /\ ip[d] # None
        /\ Truthy(name_to_code[d])
        /\ ~(DOMAIN value \subseteq DOMAIN name_to_code[d].map)) =>
         /\ ExceptionClass(ret'[d].result) = UnsupportedCapability
         /\ task'[d].pc = "idle"
         /\ UNCHANGED <<sequence_number, proto, state>>]_vars

\* C10: no callback is passed the same ScanResult twice, whatever was
\* stopped and restarted in between; a datagram that decodes to a result
\* already seen changes nothing; one that decodes to a result not yet seen
\* is recorded and passed to the first registered callback.
C10_DeliveredOnce ==
  /\ [](\A k \in Keys, r \in ScanResults :
          delivered[k][r] <= 1 /\ (delivered[k][r] = 1 => r \in seen))
  /\ [][\A port \in Ports, dg \in Datagrams :
          (DatagramReceived(port, dg) /\ Decodes(port, dg)) =>
            IF dg.result \in seen
            THEN UNCHANGED <<seen, delivered>>
            ELSE /\ seen' = seen \cup {dg.result}
                 /\ on_device_found # <<>> =>
                      delivered'[on_device_found[1].key][dg.result] = 1]_vars

\* C10 witness: two results that differ only in ip have both been passed,
\* once each, to a callback, and the scanner has since been stopped and is
\* being restarted (port 6666 rebound while the old 6667 socket closes).
C10_Witness ==
  \E k \in Keys :
    /\ delivered[k][[ip |-> "10.0.0.1", gwId |-> "d1", version |-> "3.3"]] = 1
    /\ delivered[k][[ip |-> "10.0.0.2", gwId |-> "d1", version |-> "3.3"]] = 1
    /\ transport[PORT_31] = "open"
    /\ transport[PORT_33] = "closing"

\* C11: when a datagram decodes to a result not yet seen, every registered
\* callback is passed that result, also when one of them raises.
C11_EveryCallbackInvoked ==
  [][\A port \in Ports, dg \in Datagrams :
       (/\ DatagramReceived(port, dg)
        /\ Decodes(port, dg)
        /\ dg.result \notin seen) =>
         \A k \in RegisteredKeys :
           delivered'[k][dg.result] = delivered[k][dg.result] + 1]_vars

\* A registered callback that raises has been called with some result.
RaisingCalled ==
  \E i \in DOMAIN on_device_found :
    /\ on_device_found[i].cb = "raises"
    /\ \E r \in ScanResults : delivered[on_device_found[i].key][r] > 0

\* C12: a datagram_received call that decodes its datagram returns to the
\* read loop whatever the callbacks do, and leaves the listeners open;
\* after a callback has raised, later datagrams are still de-duplicated
\* and, when new, recorded and passed to the first registered callback.
C12_CallbackExceptionContained ==
  [][\A port \in Ports, dg \in Datagrams :
       (Decodes(port, dg) /\ DatagramReceived(port, dg)) =>
         /\ ~escaped'
         /\ transport' = transport
         /\ RaisingCalled =>
              IF dg.result \in seen
              THEN UNCHANGED <<seen, delivered>>
              ELSE /\ seen' = seen \cup {dg.result}
                   /\ delivered'[on_device_found[1].key][dg.result] =
                        delivered[on_device_found[1].key][dg.result] + 1]_vars

\* C12 witness: a raising callback has been passed two results, one after
\* the other, and no exception has left datagram_received.
C12_Witness ==
  \E i \in DOMAIN on_device_found :
    /\ on_device_found[i].cb = "raises"
    /\ delivered[on_device_found[i].key]
                [[ip |-> "10.0.0.1", gwId |-> "d1", version |-> "3.3"]] = 1
    /\ delivered[on_device_found[i].key]
                [[ip |-> "10.0.0.1", gwId |-> "dX", version |-> "3.1"]] = 1
    /\ ~escaped

\* C13: the sockets are created by one add_listener call at a time, and
\* never for a port on which this scanner already has an open listener:
\* no port is bound a second time.
C13_StartOnce ==
  \A call \in adding :
    /\ transport[call.pc] # "open"
    /\ \A other \in adding : other.key = call.key

\* C14: a call of a remover unregisters the callback registered under its
\* key and no other; when that was the last registered callback of a
\* running scanner, both sockets are closed and is_running becomes false;
\* in every other case (other callbacks remain, the scanner is not running,
\* the callback was already unregistered by an earlier call) the sockets
\* and is_running are left as they were.
C14_Remover ==
  [][\A key \in Keys :
       Remove(key) =>
         /\ on_device_found' = SelectSeq(on_device_found, LAMBDA e : e.key # key)
         /\ IF RegisteredKeys = {key} /\ is_running
            THEN ~is_running' /\ \A p \in Ports : transport'[p] # "open"
            ELSE UNCHANGED <<transport, is_running>>]_vars

\* C15: the established connections that are not yet closed are exactly
\* those of the exchanges still waiting for their outcome, one connection
\* per exchange: an exchange that has returned or raised has closed its
\* connection, and a retry never runs on the connection of the attempt
\* before it.
C15_ConnectionClosed ==
  open_conns = {proto[d].seqno : d \in {e \in Devices : task[e].pc = "awaiting"}}

\* C15 witness: the second attempt of a set_state call waits on its own
\* connection after the first attempt lost its connection to a reset.
C15_Witness ==
  \E d \in Devices :
    /\ task[d].op = "set"
    /\ task[d].attempt = 1
    /\ task[d].pc = "awaiting"
    /\ exch[d] = <<"ConnectionResetError">>
    /\ open_conns = {proto[d].seqno}

\* C16: the outcome of an exchange is pending, a value or an exception
\* (a protocol error or the error the connection was lost with), and once
\* it is resolved no later data_received, eof_received or connection_lost
\* of the same exchange changes it.
C16_ResolvedOnce ==
  /\ [](\A d \in Devices : proto[d].outcome.st \in {"pending", "result", "exception"})
  /\ [][\A d \in Devices :
          (/\ proto[d].outcome.st # "pending"
           /\ proto'[d].seqno = proto[d].seqno) =>
            proto'[d].outcome = proto[d].outcome]_vars

\* C16 witness: the response resolved the outcome, then the peer closed
\* and the transport reported the end of the connection, before the
\* waiting coroutine ran.
C16_Witness ==
  \E d \in Devices :
    /\ proto[d].outcome.st = "result"
    /\ proto[d].transport = "lost"
    /\ task[d].pc = "awaiting"

\* C17: every exchange that waits for its outcome eventually completes:
\* _lan_control returns or raises, whatever the device does or fails to do.
C17_ExchangeCompletes ==
  \A d \in Devices : (task[d].pc = "awaiting") ~> (task[d].pc # "awaiting")

\* C18: when the exchange of a fetch returns a decoded response, status
\* returns the data points of a response that has "dps", and raises an
\* error that is no connection failure for a response that is None or has
\* no "dps"; the fetch that ends on such a response leaves the state and
\* the failure counter of the device as they were.
C18_StatusWithoutDps ==
  [][\A d \in Devices :
       (/\ LanControlReturns(d)
        /\ task[d].op = "fetch"
        /\ proto[d].outcome.st = "result") =>
         LET r == proto[d].outcome
             s == status(r)
         IN  IF r.val.kind = "dps"
             THEN s.st = "result" /\ s.val.dps = r.val.dps
             ELSE /\ s.st = "exception"
                  /\ ~ConnectionFailure(s.exc)
                  /\ ~IsConnectionError(s.exc)
                  /\ state'[d] = state[d]
                  /\ failed_connect'[d] = failed_connect[d]
                  /\ FetchEnds(d)]_vars

\* C18 witness: a device with a state and a counted failure has fetched
\* again, the response had no "dps", and both are as they were.
C18_Witness ==
  \E d \in Devices :
    /\ ret[d] = [op |-> "fetch", result |-> "None"]
    /\ exch[d] = <<"ok">>
    /\ state[d].some
    /\ failed_connect[d] = 1

\* C19: the counter never decreases and no exchange carries a number above
\* it; every exchange that is created, for whichever device and whatever
\* else is in flight, takes the counter's next value, which is greater
\* than the number of every exchange created before; so the exchanges in
\* flight at any one time carry different numbers.
C19_SequenceNumbers ==
  /\ [](\A d \in Devices :
          /\ proto[d].seqno <= sequence_number
          /\ \A e \in Devices \ {d} :
               (task[d].pc # "idle" /\ task[e].pc # "idle") =>
                 proto[d].seqno # proto[e].seqno)
  /\ [][/\ sequence_number' >= sequence_number
        /\ \A d \in Devices :
             (proto'[d].seqno \notin {0, proto[d].seqno}) =>
               /\ proto'[d].seqno > sequence_number
               /\ proto'[d].seqno = sequence_number']_vars

\* C19 witness: after three earlier exchanges, the fetches of two devices
\* are in flight at the same time, each with its own number.
C19_Witness ==
  /\ task["d1"].pc = "awaiting"
  /\ task["d2"].pc = "connecting"
  /\ proto["d1"].seqno = 4
  /\ proto["d2"].seqno = 5

\* C20: the step that ends the fetch of device a, however it ends, leaves
\* everything of another device b as it was: its running fetch and the
\* exchange of it, its place in the gather, its last result, its state,
\* failure counter, ip, version and code maps.
C20_FetchIsolation ==
  [][\A a \in Devices : \A b \in Devices \ {a} :
       FetchEnds(a) =>
         /\ task'[b] = task[b]
         /\ proto'[b] = proto[b]
         /\ gather'[b] = gather[b]
         /\ ret'[b] = ret[b]
         /\ exch'[b] = exch[b]
         /\ state'[b] = state[b]
         /\ failed_connect'[b] = failed_connect[b]
         /\ ip'[b] = ip[b]
         /\ version'[b] = version[b]
         /\ code_to_name'[b] = code_to_name[b]
         /\ name_to_code'[b] = name_to_code[b]]_vars

\* C20 witness: in one update the fetch of d1 has raised a KeyError while
\* the fetch of d2 is still waiting for its response, not cancelled.
C20_Witness ==
  /\ ret["d1"] = [op |-> "fetch", result |-> "KeyError"]
  /\ gather["d1"] = "none"
  /\ gather["d2"] = "child"
  /\ task["d2"].pc = "awaiting"
  /\ proto["d2"].seqno < sequence_number

\* C21: once a fetch has derived the code maps of a device, no step (a
\* later fetch, a set_state, an apply) changes either of them.
C21_MapsDerivedOnce ==
  [][\A d \in Devices :
       code_to_name[d].some =>
         /\ code_to_name'[d] = code_to_name[d]
         /\ name_to_code'[d] = name_to_code[d]]_vars

\* A call of the encoder that has been made.
Encoded == calc.fn = "encode" /\ calc.stage # "args"

\* The payload is the ciphertext, under the call's key and without base64,
\* of the JSON text of the call, with `header` in front of it.
EncryptedBehind(header) ==
  /\ calc.payload.ok
  /\ calc.payload.val =
       header \o Encrypt(calc.local_key,
                         Dumps(RequestJson(calc.command, calc.id,
                                           calc.timestamp, calc.data)),
                         FALSE)

\* C22 as stated: under version 3.3 every command is encoded to its
\* encrypted JSON, behind a header of 16 bytes ("3.3" and 12 zero bytes)
\* exactly when the command is neither the data-point query nor the
\* refresh request.
C22_Header33_16Bytes ==
  (Encoded /\ calc.vers = "3.3") =>
    IF calc.command \in {DP_QUERY, UPDATEDPS}
    THEN EncryptedBehind(<<>>)
    ELSE /\ EncryptedBehind(PROTOCOL_33_HEADER)
         /\ ByteLen(PROTOCOL_33_HEADER) = 16

\* C22 amended: under version 3.3 every command but CONTROL_NEW, which the
\* encoder refuses with NotImplementedError, is encoded to its encrypted
\* JSON, behind the header of 15 bytes ("3.3" and 12 zero bytes) exactly
\* when the command is neither the data-point query nor the refresh
\* request.
C22_Header33 ==
  (Encoded /\ calc.vers = "3.3") =>
    IF calc.command = CONTROL_NEW
    THEN ~calc.payload.ok /\ calc.payload.exc = "NotImplementedError"
    ELSE IF calc.command \in {DP_QUERY, UPDATEDPS}
    THEN EncryptedBehind(<<>>)
    ELSE /\ EncryptedBehind(PROTOCOL_33_HEADER)
         /\ PROTOCOL_33_HEADER = <<[k |-> "ver", v |-> "3.3", n |-> 3],
                                   [k |-> "zeros", n |-> 12]>>
         /\ ByteLen(PROTOCOL_33_HEADER) = 15

\* C22 witness: a control command with data encoded for version 3.3, the
\* header in front of the ciphertext.
C22_Witness ==
  /\ Encoded
  /\ calc.vers = "3.3"
  /\ calc.command = CONTROL
  /\ calc.data.some
  /\ calc.payload.ok
  /\ StartsWith(calc.payload.val, PROTOCOL_33_HEADER)
  /\ calc.payload.val[3].k = "aes"

\* C23: under version 3.1 the control command is encoded to "3.1", the
\* 16 signature characters and the base64 ciphertext of its JSON; every
\* other command is encoded to its plain JSON text; no payload starts with
\* the 3.3 header.
C23_Payload31 ==
  (Encoded /\ calc.vers = "3.1" /\ calc.command # CONTROL_NEW) =>
    LET message == Dumps(RequestJson(calc.command, calc.id, calc.timestamp,
                                     calc.data))
        enc == Encrypt(calc.local_key, message, TRUE)
    IN  /\ calc.payload.ok
        /\ ~StartsWith(calc.payload.val, PROTOCOL_33_HEADER)
        /\ calc.payload.val =
             IF calc.command = CONTROL
             THEN PROTOCOL_VERSION_BYTES_31 \o Signature(enc, calc.local_key) \o enc
             ELSE message

\* C24: for the data-point query and the control command, any data and
\* either version, the frame the encoder produces is unpacked and decoded,
\* with the same key and version, to the JSON object it was made from.
C24_RoundTrip ==
  (/\ calc.fn = "encode" /\ calc.stage = "decoded"
   /\ calc.command \in {DP_QUERY, CONTROL}) =>
    calc.back.val =
      [frame |-> "ok", payload |-> "json",
       json |-> RequestJson(calc.command, calc.id, calc.timestamp, calc.data)]

\* The branches of decoding in the order of C25, with a 3.3 header of
\* header_len bytes, and what becomes of the exchange: the decoded text and
\* the outcome of a reception are those the branches give.
DecodesInOrder(header_len) ==
  (calc.fn = "decode" /\ calc.stage = "decoded") =>
    LET p == calc.payload
        rest == IF StartsWith(p, PROTOCOL_VERSION_BYTES_33)
                THEN Drop(p, header_len) ELSE p
        expected ==
          IF p = <<>> THEN Returns(<<>>)
          ELSE IF StartsWith(p, PROTOCOL_VERSION_BYTES_31)
          THEN Decrypt(calc.local_key, Drop(p, 3 + 16), TRUE)
          ELSE IF calc.vers = "3.3"
          THEN IF rest = <<>> THEN Returns(<<>>)
               ELSE Decrypt(calc.local_key, rest, FALSE)
          ELSE IF StartsWithBrace(p) THEN Returns(p)
          ELSE Raises("ValueError")
    IN  /\ calc.text = expected
        /\ IF ~expected.ok THEN calc.outcome.st = "exception"
           ELSE IF expected.val = <<>> THEN calc.outcome = Result(JsonNone)
           ELSE IsJsonText(expected.val) =>
                  calc.outcome = Result(expected.val[1].j)

\* C25 as stated: the branches in their order, the optional 3.3 header
\* being 16 bytes.
C25_DecodeOrder_16Bytes == DecodesInOrder(16)

\* C25 amended: a "3.1" prefix first (it and the next 16 bytes stripped,
\* the rest base64-decoded and decrypted); otherwise under declared
\* version 3.3 the optional 15-byte header stripped and the rest
\* decrypted; otherwise a payload starting with '{' taken as JSON text;
\* any other non-empty payload, and any that fails to decrypt, the failed
\* outcome of the exchange; an empty payload a successful outcome with no
\* data.
C25_DecodeOrder == DecodesInOrder(15)

\* C25 witness: a response with the 3.3 header and the ciphertext of a dps
\* object has been received under version 3.3 and decoded to that object.
C25_Witness ==
  /\ calc.fn = "decode" /\ calc.stage = "decoded"
  /\ calc.vers = "3.3"
  /\ StartsWith(calc.payload, PROTOCOL_33_HEADER)
  /\ calc.outcome.st = "result"
  /\ calc.outcome.val.kind = "dps"

\* A range is valid for scaling when its two ends differ.
ValidRange(r) == r.min # r.max

\* C26: scale_value maps the ends exactly. Once scale_value has been
\* called with a valid range1, whatever range2 (its min above its max
\* included): from range1.min it returns range2.min, and from range1.max
\* it returns range2.max.
C26_EndpointsExact ==
  (calc.fn = "scale" /\ calc.stage = "done" /\ ValidRange(calc.range1)) =>
    /\ calc.value1 = calc.range1.min => calc.result = Returns(calc.range2.min)
    /\ calc.value1 = calc.range1.max => calc.result = Returns(calc.range2.max)

\* The upper end of the protocol range has been scaled to the mired range,
\* whose min is above its max, and gave its max.
C26_Witness ==
  /\ calc.fn = "scale" /\ calc.stage = "done"
  /\ calc.range1 = RANGE_255 /\ calc.range2 = COLOR_TEMP_RANGE
  /\ calc.range2.min > calc.range2.max
  /\ calc.value1 = calc.range1.max
  /\ calc.result = Returns(calc.range2.max)

\* C27: scale_value is the identity between equal ranges. Once
\* scale_value has been called with range1 = range2 and a value within
\* the range, it has returned that value.
C27_Identity ==
  (/\ calc.fn = "scale" /\ calc.stage = "done"
   /\ calc.range1 = calc.range2
   /\ calc.value1 \in Within(calc.range1)) =>
    calc.result = Returns(calc.value1)

\* A value strictly inside the hue range has been scaled from the range
\* to itself and came back.
C27_Witness ==
  /\ calc.fn = "scale" /\ calc.stage = "done"
  /\ calc.range1 = HA_HSV_RANGE[1] /\ calc.range2 = TUYA_HSV_RANGE[1]
  /\ calc.value1 = 200
  /\ calc.result = Returns(200)

\* C28: writes of the brightness are floored at 25. Once set_brightness
\* has been called on a device that registers a brightness code, with a
\* brightness of the generic range, its data-point map holds the scaled
\* value or 25, whichever is larger: never a value below 25, and 25 for a
\* requested brightness of 0.
C28_BrightnessFloor ==
  (/\ calc.fn = "set_brightness" /\ calc.stage = "done"
   /\ BRIGHTNESS_CODES \cap calc.attrs # {}
   /\ calc.value \in Within(map_from_tuya.range_brightness)) =>
    /\ calc.dps.some
    /\ DOMAIN calc.dps.map = {calc.code}
    /\ calc.dps.map[calc.code] =
         Max(25, scale_value(calc.value, map_from_tuya.range_brightness,
                             map_to_tuya.range_brightness).val)
    /\ calc.dps.map[calc.code] >= 25
    /\ calc.value = 0 => calc.dps.map[calc.code] = 25

\* The triple lies within the configured generic ranges.
InGenericRanges(color) ==
  \A i \in 1 .. 3 : color[i] \in Within(map_from_tuya.range_hsv[i])

\* C29: the HSV round trip. Once set_color_hsv has been called on a device
\* with the colour code and a triple within the generic ranges, the string
\* it wrote has exactly 14 hexadecimal digits, the seventh of them (the
\* reserved nibble) being 0; and once color_hsv has read that string back,
\* it has returned a hue, a saturation and a value each within 1 of the
\* original.
C29_HsvRoundTrip ==
  (/\ calc.fn = "hsv" /\ calc.stage \in {"encoded", "decoded"}
   /\ COLOUR_DATA \in calc.attrs
   /\ InGenericRanges(calc.color)) =>
    /\ calc.dps.some
    /\ DOMAIN calc.dps.map = {COLOUR_DATA}
    /\ LET hx == calc.dps.map[COLOUR_DATA]
       IN  /\ Len(hx) = 14
           /\ \A i \in 1 .. Len(hx) : hx[i] \in 0 .. 15
           /\ hx[7] = 0
    /\ calc.stage = "decoded" =>
         /\ calc.back.ok
         /\ \A i \in 1 .. 3 : Abs(calc.back.val[i] - calc.color[i]) <= 1

\* A triple whose saturation does not survive the two truncations has
\* been written and read back: the saturation came back one lower.
C29_Witness ==
  /\ calc.fn = "hsv" /\ calc.stage = "decoded"
  /\ COLOUR_DATA \in calc.attrs
  /\ calc.color[1] = 256
  /\ calc.back.ok
  /\ calc.back.val[1] = 256
  /\ calc.back.val[2] = calc.color[2] - 1

\* C30: the power code. Once power_state has been read or set_power_state
\* has been called: on a device that registers switch_led or switch_1 the
\* code used is one of those it registers, the read gives the state's
\* value under that code when there is one, and the write is the one data
\* point under that code; on a device that registers neither, the read
\* and the write both fail with UnsupportedCapability.
C30_PowerCode ==
  (calc.fn \in {"power_state", "set_power_state"} /\ calc.stage = "done") =>
    IF TURN_ON_CODES \cap calc.attrs # {}
    THEN /\ calc.code \in TURN_ON_CODES \cap calc.attrs
         /\ (/\ calc.fn = "power_state"
             /\ calc.state.some
             /\ calc.code \in DOMAIN calc.state.map) =>
              calc.result = Returns(calc.state.map[calc.code])
         /\ calc.fn = "set_power_state" =>
              calc.result = Returns(OneDp(calc.code, calc.value))
    ELSE calc.result = Raises(UnsupportedCapability)

\* C31: the code maps are built by position. When a fetch_state call on a
\* device without code maps ends, uncancelled, after an exchange that
\* returned a dps map, the i-th code of the response is mapped to the i-th registered
\* attribute name for every i, and the state stored has one entry per data
\* point of the response, under the attribute name of its position.
C31_MapsByPosition ==
  [][\A d \in Devices :
       (/\ FetchEnds(d) /\ GotStatus(d) /\ ~code_to_name[d].some
        /\ ret'[d].result # "CancelledError") =>
         LET dps == proto[d].outcome.val.dps
             attrs == attributes[d]
         IN  /\ Len(dps) <= Len(attrs)
             /\ code_to_name'[d].some
             /\ DOMAIN code_to_name'[d].map = DpsCodes(dps)
             /\ \A i \in DOMAIN dps :
                  code_to_name'[d].map[dps[i].code] = attrs[i]
             /\ state'[d].some
             /\ DOMAIN state'[d].map = {attrs[i] : i \in DOMAIN dps}
             /\ \A i \in DOMAIN dps :
                  state'[d].map[attrs[i]] = dps[i].value]_vars

C35_LatestAnnouncement ==
  \A d \in Devices :
    (/\ BindingRegistered
     /\ heard[d].some
     /\ \A i \in DOMAIN created : created[i].device # d) =>
      /\ ip[d] = heard[d].result.ip
      /\ version[d] = heard[d].result.version

\* b[:k]
Take(b, k) == DropLast(b, ByteLen(b) - k)

\* The payload that the header of the frame at the start of a chunk
\* declares: the length word counts the bytes after it, which are the
\* return code, the payload, the CRC and the suffix.
DeclaredFrame(data) == Take(data, 16 + data[4].val)

DeclaredPayload(data) == Drop(DropLast(DeclaredFrame(data), 8), 20)

\* C33: the payload of a response is delimited by the length field. Once
\* data_received has been given a chunk that starts with a complete
\* response frame, the payload of the unpacked message is the bytes that
\* the frame's length field delimits, whatever follows the frame in the
\* chunk, and the outcome of the exchange is the one that the first frame
\* alone gives.
C33_PayloadByLength ==
  (calc.fn = "receive" /\ calc.stage = "received") =>
    /\ calc.msg.ok
    /\ calc.msg.val.payload = DeclaredPayload(calc.chunk)
    /\ DeclaredPayload(calc.chunk) = calc.payload
    /\ calc.outcome =
         data_received(Received(DeclaredFrame(calc.chunk), calc.local_key,
                                calc.vers))

\* C34: the sockets run exactly while a callback is registered. Whenever
\* no add_listener call is suspended in _start, is_running is true if and
\* only if at least one callback is registered.
C34_RunningIffRegistered ==
  adding = {} => (is_running <=> on_device_found # <<>>)

\* C38: a failed add_listener leaves the scanner as it was. When the only
\* add_listener call in progress, made on a scanner with no other callback
\* registered, fails because a socket cannot be bound, then after the
\* failure its callback is not registered, no discovery socket is open and
\* is_running is false.
C38_FailedAddListener ==
  [][\A call \in [key : Keys, pc : Ports] :
       (/\ EndpointFailed(call)
        /\ adding = {call}
        /\ RegisteredKeys = {call.key}) =>
         /\ call.key \notin {on_device_found'[i].key : i \in DOMAIN on_device_found'}
         /\ \A p \in Ports : transport'[p] # "open"
         /\ ~is_running']_vars

\* C36: availability never reverts. No step (a failed fetch, a failed
\* set, an applied ScanResult, the failure counter passing 3) makes a
\* device that is available unavailable.
C36_AvailabilityStable ==
  [][\A d \in Devices : is_available(d) => is_available(d)']_vars

\* A device that was fetched once has since failed to connect four times:
\* its state is assumed, and it is still available.
C36_Witness ==
  /\ is_available("d1")
  /\ assumed_state("d1")
  /\ task["d1"].pc = "idle"
  /\ ret["d1"].op = "fetch"

\* C37: the code maps are inverse to each other. Whenever a device has a
\* code-to-name map it has a name-to-code map, each takes the other's
\* values back to where they came from, and every attribute name in the
\* stored state has a code that is mapped back to that name.
C37_MapsInverse ==
  \A d \in Devices :
    /\ code_to_name[d].some <=> name_to_code[d].some
    /\ code_to_name[d].some =>
         LET c2n == code_to_name[d].map
             n2c == name_to_code[d].map
         IN  /\ \A c \in DOMAIN c2n :
                  c2n[c] \in DOMAIN n2c /\ n2c[c2n[c]] = c
             /\ \A n \in DOMAIN n2c :
                  n2c[n] \in DOMAIN c2n /\ c2n[n2c[n]] = n
             /\ state[d].some =>
                  \A n \in DOMAIN state[d].map :
                    n \in DOMAIN n2c /\ c2n[n2c[n]] = n

\* The maps of a device whose first response held the codes 2 and 3, and
\* a state under both names that a set_state has since written to.
C37_Witness ==
  /\ code_to_name["d1"].some
  /\ DOMAIN code_to_name["d1"].map = {2, 3}
  /\ name_to_code["d1"].map["switch_led"] = 2
  /\ name_to_code["d1"].map["bright_value"] = 3
  /\ state["d1"].some
  /\ DOMAIN state["d1"].map = {"switch_led", "bright_value"}
  /\ ret["d1"] = [op |-> "set", result |-> "True"]

\* The two ranges run the same way: both upwards or both downwards.
SameOrientation(r1, r2) == (r1.min < r1.max) <=> (r2.min < r2.max)

\* C39: scale_value stays within the target and is monotone. Once
\* scale_value has been called with two ranges of distinct endpoints
\* (either may have its min above its max) and an integer between the
\* endpoints of range1, it has returned a value between the endpoints of
\* range2, ends included; and the next integer of range1, if there is one,
\* is scaled to a value at least as large when both ranges run the same
\* way, and at most as large otherwise.
C39_BoundedMonotone ==
  (/\ calc.fn = "scale" /\ calc.stage = "done"
   /\ ValidRange(calc.range1) /\ ValidRange(calc.range2)
   /\ calc.value1 \in Within(calc.range1)) =>
    /\ calc.result.ok
    /\ calc.result.val \in Within(calc.range2)
    /\ (calc.value1 + 1 \in Within(calc.range1)) =>
         LET next == scale_value(calc.value1 + 1, calc.range1, calc.range2)
         IN  /\ next.ok
             /\ IF SameOrientation(calc.range1, calc.range2)
                  THEN calc.result.val <= next.val
                  ELSE calc.result.val >= next.val

\* A value strictly inside the protocol range has been scaled to the
\* mired range, whose min is above its max: the result lies strictly
\* between 153 and 370, and a larger value of the protocol range is scaled
\* to a smaller number of mired.
C39_Witness ==
  /\ calc.fn = "scale" /\ calc.stage = "done"
  /\ calc.range1 = RANGE_255 /\ calc.range2 = COLOR_TEMP_RANGE
  /\ ~SameOrientation(calc.range1, calc.range2)
  /\ calc.value1 = 100
  /\ calc.result = Returns(284)
  /\ scale_value(102, calc.range1, calc.range2) = Returns(283)

==============================================================================
